---- MODULE Spec2Model ----
(***************************************************************************)
(* The dust entity store (dust/entity.py) and its SQL persistence engine   *)
(* (dust/persist/sqlpersist.py, dust/persist/mysqlpersist.py).             *)
(*                                                                         *)
(* Python values are tagged records [t |-> kind, v |-> payload]:           *)
(*   int, str, bool, none; "entity" is an Entity object (named by the key  *)
(*   it is stored under), "list" a Python list (a sequence), "set" a       *)
(*   Python set (a bag element -> number of occurrences, so that a stored  *)
(*   duplicate is expressible), "type"/"field" an Enum member.             *)
(* A call returns [S |-> store after the call, rv |-> value, err |-> ""    *)
(* or the name of the exception raised]; S is [entity_map, enum_map, msgs].*)
(***************************************************************************)
EXTENDS Integers, Sequences, FiniteSets, Bags, TLC

VARIABLES entity_map, enum_map, issued, sql_persister, json_doc, ret, callers,
          sql_init

vars == <<entity_map, enum_map, issued, sql_persister, json_doc, ret, callers, sql_init>>

(***************************************************************************)
(* Bounds of the model.                                                    *)
(***************************************************************************)
MaxAuto == 2
MaxLen == 3
MaxNum == 2
MaxRows == 2
MaxCallers == 2

(***************************************************************************)
(* dust/__init__.py and the module constants of dust/entity.py             *)
(***************************************************************************)
UNIT_ENTITY == "entity"
UNIT_ENTITY_META == "entity_meta"
UNIT_MESSAGES == "messages"
UNIT_USER == "u1"
UNIT_OTHER == "u2"
UNIT_USER_META == "u1_meta"

Datatypes == {"INT", "NUMERIC", "BOOL", "STRING", "BYTES", "JSON", "ENTITY"}
ValueTypes == {"SINGLE", "SET", "LIST", "MAP"}
Operation == {"SET", "ADD", "GET", "PEEK", "VISIT", "CHANGE", "DEL", "WALK"}

PyNone == [t |-> "none", v |-> 0]
PyInt(n) == [t |-> "int", v |-> n]
PyStr(s) == [t |-> "str", v |-> s]
PyBool(b) == [t |-> "bool", v |-> b]
Ent(g) == [t |-> "entity", v |-> g]
PyList(s) == [t |-> "list", v |-> s]
PySet(b) == [t |-> "set", v |-> b]
PyDict(d) == [t |-> "dict", v |-> d]
TypeV(m) == [t |-> "type", v |-> m]
FieldV(f) == [t |-> "field", v |-> f]

F(name, datatype, valuetype, order, id) ==
    [name |-> name, datatype |-> datatype, valuetype |-> valuetype,
     order_value |-> order, id_value |-> id]

(* MetaProps members: name, (datatype, valuetype, order, id) *)
FieldDef ==
    [f \in {"UnitMeta.name", "UnitMeta.id_cnt", "UnitMeta.meta_types",
            "TypeMeta.name", "TypeMeta.fields",
            "MetaField.name", "MetaField.global_name", "MetaField.order",
            "EntityBaseMeta.unit", "EntityBaseMeta.meta_type",
            "EntityBaseMeta.entity_id", "EntityBaseMeta.committed",
            "AFields.num", "AFields.tags", "AFields.items", "AFields.props",
            "BFields.ref", "BFields.refs", "BFields.links", "MFields.label"} |->
      CASE f = "UnitMeta.name" -> F("name", "STRING", "SINGLE", 1, 100)
        [] f = "UnitMeta.id_cnt" -> F("id_cnt", "INT", "SINGLE", 2, 101)
        [] f = "UnitMeta.meta_types" -> F("meta_types", "ENTITY", "SET", 3, 102)
        [] f = "TypeMeta.name" -> F("name", "STRING", "SINGLE", 1, 200)
        [] f = "TypeMeta.fields" -> F("fields", "ENTITY", "SET", 2, 201)
        [] f = "MetaField.name" -> F("name", "STRING", "SINGLE", 1, 300)
        [] f = "MetaField.global_name" -> F("global_name", "STRING", "SINGLE", 2, 301)
        [] f = "MetaField.order" -> F("order", "INT", "SINGLE", 3, 302)
        [] f = "EntityBaseMeta.unit" -> F("unit", "ENTITY", "SINGLE", 1, 400)
        [] f = "EntityBaseMeta.meta_type" -> F("meta_type", "ENTITY", "SINGLE", 2, 401)
        [] f = "EntityBaseMeta.entity_id" -> F("entity_id", "INT", "SINGLE", 3, 402)
        [] f = "EntityBaseMeta.committed" -> F("committed", "BOOL", "SINGLE", 4, 403)
        [] f = "AFields.num" -> F("num", "INT", "SINGLE", 1, 3)
        [] f = "AFields.tags" -> F("tags", "INT", "SET", 2, 4)
        [] f = "AFields.items" -> F("items", "INT", "LIST", 3, 5)
        [] f = "AFields.props" -> F("props", "STRING", "MAP", 4, 2)
        [] f = "BFields.ref" -> F("ref", "ENTITY", "SINGLE", 1, 6)
        [] f = "BFields.refs" -> F("refs", "ENTITY", "SET", 2, 7)
        [] f = "BFields.links" -> F("links", "ENTITY", "LIST", 3, 1)
        [] f = "MFields.label" -> F("label", "STRING", "SINGLE", 1, 2)]

UnitMeta == <<"UnitMeta.name", "UnitMeta.id_cnt", "UnitMeta.meta_types">>
TypeMeta == <<"TypeMeta.name", "TypeMeta.fields">>
MetaField == <<"MetaField.name", "MetaField.global_name", "MetaField.order">>
EntityBaseMeta == <<"EntityBaseMeta.unit", "EntityBaseMeta.meta_type",
                    "EntityBaseMeta.entity_id", "EntityBaseMeta.committed">>
AFields == <<"AFields.num", "AFields.tags", "AFields.items", "AFields.props">>
BFields == <<"BFields.ref", "BFields.refs", "BFields.links">>
MFields == <<"MFields.label">>

T(name, unit_name, fields_enum, id) ==
    [name |-> name, unit_name |-> unit_name, fields_enum |-> fields_enum,
     id_value |-> id]

(* FieldProps members: name, (unit name, fields enum, id) *)
TypeDef ==
    [m \in {"EntityTypes.type_meta", "EntityTypes._entity_base",
            "EntityTypes.unit", "EntityTypes.meta_field",
            "UserTypes.A", "UserTypes.B", "MetaTypes.M"} |->
      CASE m = "EntityTypes.type_meta" -> T("type_meta", UNIT_ENTITY_META, TypeMeta, 1)
        [] m = "EntityTypes._entity_base" -> T("_entity_base", UNIT_ENTITY_META, EntityBaseMeta, 2)
        [] m = "EntityTypes.unit" -> T("unit", UNIT_ENTITY_META, UnitMeta, 3)
        [] m = "EntityTypes.meta_field" -> T("meta_field", UNIT_ENTITY_META, MetaField, 4)
        [] m = "UserTypes.A" -> T("A", UNIT_USER, AFields, 1)
        [] m = "UserTypes.B" -> T("B", UNIT_USER, BFields, 2)
        [] m = "MetaTypes.M" -> T("M", UNIT_USER_META, MFields, 1)]

EntityTypes == <<"EntityTypes.type_meta", "EntityTypes._entity_base",
                 "EntityTypes.unit", "EntityTypes.meta_field">>
UserTypes == <<"UserTypes.A", "UserTypes.B">>
MetaTypes == <<"MetaTypes.M">>

TypeMembers == DOMAIN TypeDef
FieldMembers == DOMAIN FieldDef
UnitNames == {UNIT_ENTITY, UNIT_ENTITY_META, UNIT_USER, UNIT_OTHER, UNIT_USER_META}
TypeNames == {TypeDef[m].name : m \in TypeMembers}

Range(s) == {s[i] : i \in DOMAIN s}

(* every entity id that a call of the model can supply or receive *)
MaxId == 7 + MaxAuto + 1
ModelIds == (0 .. MaxId) \cup {FieldDef[f].id_value : f \in FieldMembers}

Res(S, rv, err) == [S |-> S, rv |-> rv, err |-> err]

(* a local name for the value v in the rest Op of a function body; v is   *)
(* computed once, as the assignment to a local computes it               *)
Let(v, Op(_)) == CHOOSE y \in {Op(x) : x \in {v}} : TRUE

(* dict.setdefault / dict[k] = v on a TLA+ function *)
Put(f, k, v) == [x \in DOMAIN f \cup {k} |-> IF x = k THEN v ELSE f[x]]

(* Store._global_field_name, the format() branch *)
_global_field_name(unit, meta_type, field_name) ==
    unit \o ":" \o meta_type \o ":" \o field_name

(* Store._get_base_fields: unit, meta_type, entity_id, committed *)
_get_base_fields ==
    [i \in 1..4 |-> _global_field_name(UNIT_ENTITY_META,
                        TypeDef["EntityTypes._entity_base"].name,
                        FieldDef[EntityBaseMeta[i]].name)]

(* str.split(":") and int(parts[1]) of Entity._resolve_global_id, tabulated *)
(* for every string unit:id:name the model can build                        *)
GidParse ==
    LET triples == UnitNames \X ModelIds \X TypeNames
        str(p) == p[1] \o ":" \o ToString(p[2]) \o ":" \o p[3]
    IN [s \in {str(p) : p \in triples} |->
           CHOOSE p \in triples : str(p) = s]

(* Entity._ref: both arguments Entity objects, or a unit name and an Enum member *)
_ref(S, unit, entity_id, meta_type) ==
    IF unit.t = "entity" /\ meta_type.t = "entity"
    THEN S.enum_map.unit_names[unit.v] \o ":" \o ToString(entity_id) \o ":"
             \o TypeDef[S.enum_map.type_enums[meta_type.v]].name
    ELSE unit.v \o ":" \o ToString(entity_id) \o ":" \o TypeDef[meta_type.v].name

(* Entity.global_id of the Entity object e = [unit, entity_id, meta_type, committed] *)
global_id(S, e) == _ref(S, Ent(e.unit), e.entity_id, Ent(e.meta_type))

(* the Entity object stored under key g *)
Obj(S, g) == S.entity_map[g].e

None3 == [unit |-> PyNone, entity_id |-> PyNone, meta_type |-> PyNone]

(* Entity._resolve_global_id *)
_resolve_global_id(S, value) ==
    Let(GidParse, LAMBDA parse :
    IF value.t = "str" /\ value.v \in DOMAIN parse
           /\ parse[value.v][1] \in DOMAIN S.enum_map.units
    THEN Let(S.enum_map.units[parse[value.v][1]], LAMBDA unit :
         IF unit \in DOMAIN S.entity_map
              /\ S.entity_map[unit].e.meta_type \in DOMAIN S.enum_map.type_enums
              /\ S.enum_map.type_enums[S.entity_map[unit].e.meta_type]
                     = "EntityTypes.unit"
         THEN IF value.v \notin DOMAIN S.entity_map
              THEN Res(S, None3, "AttributeError")
              ELSE IF S.entity_map[value.v].e.meta_type
                          \in DOMAIN S.enum_map.type_enums
                   THEN Res(S, [unit |-> Ent(unit),
                                entity_id |-> PyInt(parse[value.v][2]),
                                meta_type |-> Ent(S.entity_map[value.v].e.meta_type)],
                            "")
                   ELSE Res(S, None3, "")
         ELSE Res(S, None3, ""))
    ELSE Res(S, None3, ""))

(* Entity.__init__ *)
Entity(unit, entity_id, meta_type) ==
    [unit |-> unit, entity_id |-> entity_id, meta_type |-> meta_type,
     committed |-> FALSE]

(* variant of _add_entity_to_store that stores the name of the unit in    *)
(* place of the GlobalId of the unit entity                               *)
_add_entity_to_store_named(S, e) ==
    [S EXCEPT !.entity_map =
        Put(S.entity_map, global_id(S, e),
            [m |-> [n \in Range(_get_base_fields) |->
                      IF n = _get_base_fields[1]
                      THEN PyStr(S.enum_map.unit_names[e.unit])
                      ELSE IF n = _get_base_fields[3] THEN PyInt(e.entity_id)
                      ELSE IF n = _get_base_fields[2]
                      THEN PyStr(global_id(S, Obj(S, e.meta_type)))
                      ELSE PyBool(e.committed)],
             e |-> e])]

(* Store._add_entity_to_store *)
_add_entity_to_store(S, e) ==
    [S EXCEPT !.entity_map =
        Put(S.entity_map, global_id(S, e),
            [m |-> [n \in Range(_get_base_fields) |->
                      IF n = _get_base_fields[1]
                      THEN PyStr(global_id(S, Obj(S, e.unit)))
                      ELSE IF n = _get_base_fields[3] THEN PyInt(e.entity_id)
                      ELSE IF n = _get_base_fields[2]
                      THEN PyStr(global_id(S, Obj(S, e.meta_type)))
                      ELSE PyBool(e.committed)],
             e |-> e])]

(* Store._create_entity, called with a unit name and an Enum member *)
_create_entity(S, unit, entity_id, meta_type) ==
    IF unit.v \notin DOMAIN S.enum_map.units
           \/ meta_type.v \notin DOMAIN S.enum_map.types
    THEN Res(S, PyNone, "KeyError")
    ELSE Let(Entity(S.enum_map.units[unit.v], entity_id, S.enum_map.types[meta_type.v]),
             LAMBDA e : Res(_add_entity_to_store(S, e), Ent(global_id(S, e)), ""))

(* Store._set_uncommitted *)
_set_uncommitted(S, g) ==
    [S EXCEPT !.entity_map[g] =
        [m |-> Put(@.m, _get_base_fields[4], PyBool(FALSE)),
         e |-> [@.e EXCEPT !.committed = FALSE]]]

(* Python set operations on the bag that models a set object *)
PySetEmpty == [x \in {} |-> 0]

(* variant of PySetAdd that counts a second add of a member *)
PySetAdd_counting(b, x) ==
    [y \in DOMAIN b \cup {x} |->
        IF y \in DOMAIN b THEN (IF y = x THEN b[y] + 1 ELSE b[y]) ELSE 1]

PySetAdd(b, x) ==
    [y \in DOMAIN b \cup {x} |-> IF y \in DOMAIN b THEN b[y] ELSE 1]

RECURSIVE PySetUpdate(_, _)
PySetUpdate(b, xs) ==
    IF xs = <<>> THEN b ELSE PySetUpdate(PySetAdd(b, Head(xs)), Tail(xs))

(* Python == on two values of the model *)
PyEq(a, b) == a.t = b.t /\ a.v = b.v

(* e_map.get(name, None) *)
DictGet(e_map, name) == IF name \in DOMAIN e_map THEN e_map[name] ELSE PyNone

(* str.endswith over the unit names of the model *)
endswith(name, suffix) == \E p \in UnitNames \cup {""} : name = p \o suffix

(* Store._access_data_get_value on an Entity or on None *)
_access_data_get_value(S, obj, key, default_value) ==
    IF obj.t = "entity"
    THEN IF key.t /= "field" \/ key.v \notin DOMAIN S.enum_map.gname
         THEN Res(S, PyNone, "KeyError")
         ELSE Let(S.entity_map[global_id(S, Obj(S, obj.v))].m, LAMBDA e_map :
              IF S.enum_map.gname[key.v] \in DOMAIN e_map
              THEN Let(e_map[S.enum_map.gname[key.v]], LAMBDA stored :
                   Let(_resolve_global_id(S, stored), LAMBDA r :
                   IF r.err /= "" THEN Res(S, PyNone, r.err)
                   ELSE IF r.rv.entity_id.t = "int" /\ r.rv.entity_id.v /= 0
                        THEN Res(S, Ent(stored.v), "")
                        ELSE Res(S, stored, "")))
              ELSE Res(S, default_value, ""))
    ELSE Res(S, default_value, "")

(* variant of InplaceAdd that adds the magnitude of an integer delta *)
InplaceAdd_magnitude(old, value) ==
    IF old.t = "int" /\ value.t = "int"
    THEN PyInt(old.v + (IF value.v < 0 THEN 0 - value.v ELSE value.v))
    ELSE IF old.t = "list" /\ value.t = "list" THEN PyList(old.v \o value.v)
    ELSE PyNone

(* variant of InplaceAdd that leaves the stored value as it was *)
InplaceAdd_kept(old, value) == old

(* e_map[global_field_name] += value: int + int, list + list; any other *)
(* pair of operand types raises TypeError                               *)
InplaceAdd(old, value) ==
    IF old.t = "int" /\ value.t = "int" THEN PyInt(old.v + value.v)
    ELSE IF old.t = "list" /\ value.t = "list" THEN PyList(old.v \o value.v)
    ELSE PyNone

(* variant of reference that keeps the Entity object itself *)
reference_direct(S, value) == value

(* value.global_id(): what an entity-typed field stores for an Entity *)
reference(S, value) == PyStr(global_id(S, Obj(S, value.v)))

(* Store._access_data_set_value: rv is the pair (changed, value) *)
_access_data_set_value(S, obj, field, value, operation) ==
    IF obj.t /= "entity"
    THEN Res(S, [changed |-> FALSE, value |-> PyNone], "")
    ELSE IF field.t /= "field" \/ field.v \notin DOMAIN S.enum_map.gname
    THEN Res(S, [changed |-> FALSE, value |-> PyNone], "KeyError")
    ELSE
    Let(global_id(S, Obj(S, obj.v)), LAMBDA g :
    Let(S.enum_map.gname[field.v], LAMBDA global_field_name :
    Let(S.entity_map[g].m, LAMBDA e_map :
    Let(DictGet(e_map, global_field_name), LAMBDA old :
    LET has == global_field_name \in DOMAIN e_map
        fd == FieldDef[field.v]
        Changed(v, rv) ==
            Res(_set_uncommitted(
                    [S EXCEPT !.entity_map[g].m = Put(@, global_field_name, v)], g),
                [changed |-> TRUE, value |-> rv], "")
        Same == Res(S, [changed |-> FALSE, value |-> value], "")
        oldlist == IF has THEN old.v ELSE <<>>
        oldset == IF has THEN old.v ELSE PySetEmpty
    IN  IF fd.datatype = "ENTITY" /\ value.t = "entity"
        THEN IF fd.valuetype = "LIST"
             THEN Changed(PyList(Append(oldlist, reference(S, value))),
                          value)
             ELSE IF fd.valuetype = "SET"
             THEN (* "not value.global_id in ...": the bound method value.global_id *)
                  (* is no member of a set of strings, the test is always true     *)
                  Changed(PySet(PySetAdd(oldset, reference(S, value))),
                          value)
             ELSE (* e_map.get(...) != value compares the stored string (or None) *)
                  (* with the Entity object                                       *)
                  IF ~PyEq(old, value)
                  THEN Changed(reference(S, value), value)
                  ELSE Same
        ELSE IF fd.valuetype = "LIST" /\ value.t /= "list"
        THEN Changed(PyList(Append(oldlist, value)), value)
        ELSE IF fd.valuetype = "SET" /\ value.t /= "set"
        THEN IF value.t = "list"
             THEN IF ~(has /\ \A i \in DOMAIN value.v : value.v[i] \in DOMAIN old.v)
                  THEN Changed(PySet(PySetUpdate(oldset, value.v)), value)
                  ELSE Same
             ELSE IF ~has \/ value \notin DOMAIN old.v
                  THEN Changed(PySet(PySetAdd(oldset, value)), value)
                  ELSE Same
        ELSE IF operation = "CHANGE"
        THEN IF ~has THEN Res(S, [changed |-> FALSE, value |-> value], "KeyError")
             ELSE Let(InplaceAdd(old, value), LAMBDA new :
                  IF new = PyNone
                  THEN Res(S, [changed |-> FALSE, value |-> value], "TypeError")
                  ELSE Changed(new, new))
        ELSE IF ~PyEq(old, value) THEN Changed(value, value) ELSE Same))))

(* variant of _create_message that forwards whatever the unit of the entity *)
_create_message_unfiltered(S, op, path, entity) ==
    IF S.hooked /\ op \in {"ADD", "SET", "DEL", "CHANGE"}
    THEN Res([S EXCEPT !.msgs = Append(@, [op |-> op, path |-> <<>>,
                                           entities |-> <<entity.v>>])], PyNone, "")
    ELSE Res(S, PyNone, "")

(* _create_message: the message handed to dust.messages.create_message is *)
(* appended to S.msgs                                                     *)
_create_message(S, op, path, entity) ==
    IF S.hooked /\ op \in {"ADD", "SET", "DEL", "CHANGE"}
    THEN Let(SelectSeq(path, LAMBDA x : x.t \in {"type", "field", "entity"}), LAMBDA names :
         Let([op |-> op,
              path |-> [i \in DOMAIN names |->
                          IF names[i].t = "type" THEN TypeDef[names[i].v].name
                          ELSE IF names[i].t = "field" THEN FieldDef[names[i].v].name
                          ELSE global_id(S, Obj(S, names[i].v))],
              entities |-> <<entity.v>>], LAMBDA params :
         IF entity = PyNone
         THEN Res([S EXCEPT !.msgs = Append(@, [params EXCEPT !.entities = <<"None">>])],
                  PyNone, "")
         ELSE Let(_resolve_global_id(S, entity), LAMBDA r :
              IF r.err /= "" THEN Res(S, PyNone, r.err)
              ELSE IF r.rv.unit = PyNone THEN Res(S, PyNone, "KeyError")
              ELSE Let(S.enum_map.unit_names[r.rv.unit.v], LAMBDA unit_name :
                   IF unit_name \in {UNIT_MESSAGES, UNIT_ENTITY}
                          \/ endswith(unit_name, "_meta")
                   THEN Res(S, PyNone, "")
                   ELSE Res([S EXCEPT !.msgs = Append(@, params)], PyNone, "")))))
    ELSE Res(S, PyNone, "")

RECURSIVE Access(_, _, _, _)
RECURSIVE access_locate(_, _)

(* Entity.access *)
Entity_access(S, g, operation, value, path) ==
    Access(S, operation, value,
           <<PyStr(S.enum_map.unit_names[S.entity_map[g].e.unit]),
             PyInt(S.entity_map[g].e.entity_id),
             TypeV(S.enum_map.type_enums[S.entity_map[g].e.meta_type])>> \o path)

(* Store.increment_unit_counter. S.issued records, per unit name, the ids *)
(* the call has returned so far (a history of the return values).        *)
increment_unit_counter(S, unit_name) ==
    IF unit_name \notin DOMAIN S.enum_map.units
    THEN Res(S, PyNone, "KeyError")
    ELSE Let(Entity_access(S, S.enum_map.units[unit_name], "CHANGE", PyInt(1),
                           <<FieldV("UnitMeta.id_cnt")>>), LAMBDA r :
         IF r.err /= "" THEN r
         ELSE Res([r.S EXCEPT !.issued =
                      Put(@, unit_name,
                          Append(IF unit_name \in DOMAIN @ THEN @[unit_name] ELSE <<>>,
                                 r.rv.v))],
                  r.rv, ""))

(* Store.access, lines 259-316: the walk over remaining_path (at most one *)
(* step) and the operation, once last_obj is known. last_obj None stands  *)
(* for the list of all entities, into which the key is no index.          *)
access_walk(S, operation, value, path, last_obj, remaining_path) ==
    IF last_obj = PyNone
    THEN Res(S, PyNone, "")
    ELSE
    Let(IF Len(remaining_path) = 0
        THEN Res(S, [changed |-> TRUE, value |-> last_obj], "")
        ELSE Let(_access_data_get_value(S, last_obj, remaining_path[1], PyNone),
                 LAMBDA got :
             IF got.err /= "" THEN got
             ELSE IF operation \in {"SET", "ADD", "CHANGE"}
             THEN _access_data_set_value(S, last_obj, remaining_path[1], value, operation)
             ELSE Res(S, [changed |-> FALSE,
                          value |-> IF operation \in {"GET", "VISIT"}
                                    THEN got.rv ELSE PyNone], "")),
        LAMBDA done :
    IF done.err /= "" THEN Res(done.S, PyNone, done.err)
    ELSE IF done.rv.changed
    THEN Let(_create_message(done.S, operation,
                             IF Len(remaining_path) = 0 THEN <<>> ELSE path,
                             PyStr(global_id(S, Obj(S, last_obj.v)))), LAMBDA msg :
         Res(msg.S, done.rv.value, msg.err))
    ELSE Res(done.S, done.rv.value, ""))

(* Store._access_data_create_container: a SET field gets an empty set and  *)
(* the call returns None; a LIST field gets an empty list and the return   *)
(* statement names the undefined global_name                               *)
_access_data_create_container(S, obj, field, key) ==
    IF obj.t /= "entity" THEN Res(S, PyNone, "")
    ELSE IF field.t /= "field" \/ field.v \notin DOMAIN S.enum_map.gname
    THEN Res(S, PyNone, "KeyError")
    ELSE
    Let(global_id(S, Obj(S, obj.v)), LAMBDA g :
    Let(S.enum_map.gname[field.v], LAMBDA global_field_name :
    IF FieldDef[field.v].valuetype = "SET"
    THEN Res([S EXCEPT !.entity_map[g].m = Put(@, global_field_name, PySet(PySetEmpty))],
             PyNone, "")
    ELSE IF FieldDef[field.v].valuetype = "LIST"
    THEN Res([S EXCEPT !.entity_map[g].m = Put(@, global_field_name, PyList(<<>>))],
             PyNone, "NameError")
    ELSE Res(S, PyNone, "")))

(* Store._access_data_get_value on a list, a dict, a set or a scalar *)
_access_data_get_element(S, obj, key, default_value) ==
    IF obj.t = "list"
    THEN IF key.t = "int" /\ key.v < Len(obj.v)
         THEN Res(S, obj.v[key.v + 1], "") ELSE Res(S, default_value, "")
    ELSE IF obj.t = "dict"
    THEN IF key.t = "str" /\ key.v \in DOMAIN obj.v
         THEN Res(S, obj.v[key.v], "") ELSE Res(S, default_value, "")
    ELSE IF obj.t = "set" THEN Res(S, PyNone, "Exception")
    ELSE Res(S, default_value, "")

(* Store.access, lines 259-316, for a remaining_path of two steps: a field *)
(* of the entity last_obj and a key into the value of the field.  The      *)
(* second pass of the loop creates a container when the field holds no     *)
(* value; the operation is then applied to the parent of the last step.    *)
access_walk_nested(S, operation, value, path, last_obj, remaining_path) ==
    IF last_obj = PyNone THEN Res(S, PyNone, "")
    ELSE
    Let(_access_data_get_value(S, last_obj, remaining_path[1], PyNone), LAMBDA got :
    IF got.err /= "" THEN Res(S, PyNone, got.err)
    ELSE IF got.rv = PyNone
    THEN Let(_access_data_create_container(S, last_obj, remaining_path[1],
                                           remaining_path[2]), LAMBDA made :
         Res(made.S, PyNone, made.err))
    ELSE IF got.rv.t = "entity"
    THEN access_walk(S, operation, value, path, got.rv, <<remaining_path[2]>>)
    ELSE Let(_access_data_get_element(S, got.rv, remaining_path[2], PyNone), LAMBDA el :
         IF el.err /= "" THEN el
         ELSE IF operation \in {"GET", "VISIT"} THEN el
         ELSE Res(S, PyNone, "")))

(* a variant of the key of line 239 that leaves out which user type is asked for *)
local_ref_untyped(S, unit, entity_id, meta_type) ==
    IF meta_type.v \in Range(UserTypes)
    THEN _ref(S, unit, entity_id, TypeV(UserTypes[1]))
    ELSE _ref(S, unit, entity_id, meta_type)

(* Store.access line 239: the key under which the located entity is looked up *)
local_ref(S, unit, entity_id, meta_type) == _ref(S, unit, entity_id, meta_type)

(* Store.access, lines 230-257: rv is [last_obj, idx]; a path of a unit    *)
(* name, an id or None and a meta-type member creates the entity on demand *)
access_locate(S, path) ==
    IF Len(path) = 0 THEN Res(S, [last_obj |-> PyNone, idx |-> 0], "")
    ELSE
    Let(_resolve_global_id(S, path[1]), LAMBDA r0 :
    IF r0.err /= "" THEN Res(S, PyNone, r0.err)
    ELSE IF r0.rv.entity_id /= PyNone
    THEN Res(S, [last_obj |-> Ent(path[1].v), idx |-> 1], "")
    ELSE IF Len(path) > 2 /\ path[2].t \in {"none", "int"} /\ path[3].t = "type"
    THEN Let(IF path[2].t = "none"
             THEN IF path[1].t = "str" THEN increment_unit_counter(S, path[1].v)
                  ELSE Res(S, PyNone, "KeyError")
             ELSE Res(S, path[2], ""), LAMBDA inc :
         IF inc.err /= "" THEN Res(inc.S, PyNone, inc.err)
         ELSE IF path[1].t /= "str" THEN Res(inc.S, PyNone, "TypeError")
         ELSE
         Let(local_ref(inc.S, path[1], inc.rv.v, path[3]), LAMBDA ref :
         IF ref \notin DOMAIN inc.S.entity_map
         THEN Let(_create_entity(inc.S, path[1], inc.rv.v, path[3]), LAMBDA made :
              Res(made.S, [last_obj |-> made.rv, idx |-> 3], made.err))
         ELSE Res(inc.S, [last_obj |-> Ent(ref), idx |-> 3], "")))
    ELSE Res(S, [last_obj |-> PyNone, idx |-> 0], ""))

(* Store.access, for a path of an entity locator (a GlobalId string, or   *)
(* unit name, id or None, meta-type member) and at most two further steps *)
Access(S, operation, value, path) ==
    Let(access_locate(S, path), LAMBDA loc :
    IF loc.err /= "" THEN Res(loc.S, PyNone, loc.err)
    ELSE IF Len(path) = loc.rv.idx + 2
    THEN access_walk_nested(loc.S, operation, value, path, loc.rv.last_obj,
                            SubSeq(path, loc.rv.idx + 1, Len(path)))
    ELSE access_walk(loc.S, operation, value, path, loc.rv.last_obj,
                     SubSeq(path, loc.rv.idx + 1, Len(path))))

(* sequencing of calls: an exception ends the sequence *)
Then(r, Op(_)) == Let(r, LAMBDA x : IF x.err /= "" THEN x ELSE Op(x.S))

(* a for loop over the sequence xs, starting from the result r *)
ForEach(r, xs, Body(_, _)) ==
    LET f[i \in 0 .. Len(xs)] ==
            IF i = 0 THEN r
            ELSE Let(f[i - 1], LAMBDA prev :
                     IF prev.err /= "" THEN prev ELSE Body(prev.S, xs[i]))
    IN f[Len(xs)]

(* Store.create_unit, first branch: a unit that is not yet known *)
create_unit_generic(S, unit_name) ==
    Let(Access(S, "GET", PyNone,
               <<PyStr(UNIT_ENTITY), PyNone, TypeV("EntityTypes.unit")>>), LAMBDA got :
    IF got.err /= "" THEN got
    ELSE Let(got.rv.v, LAMBDA unit :
         Let(Then(Entity_access(
                      [got.S EXCEPT !.enum_map.units = Put(@, unit_name, unit),
                                    !.enum_map.unit_names = Put(@, unit, unit_name)],
                      unit, "SET", PyInt(0), <<FieldV("UnitMeta.id_cnt")>>),
                  LAMBDA X : Entity_access(X, unit, "SET", PyStr(unit_name),
                                           <<FieldV("UnitMeta.name")>>)), LAMBDA r2 :
         Res(r2.S, Ent(unit), r2.err))))

(* the keys of the two foundational units and of a foundational meta-type *)
BootUnit == "entity:1:unit"
BootUnitMeta == "entity:2:unit"
BootType(entity_type) ==
    UNIT_ENTITY_META \o ":" \o ToString(TypeDef[entity_type].id_value) \o ":type_meta"

(* variant of the hand-made objects in which the meta-type of the four    *)
(* foundational meta-types is left at the unit type                       *)
BootObj_untyped(g) ==
    IF g = BootUnit THEN Entity(BootUnit, 1, BootType("EntityTypes.unit"))
    ELSE IF g = BootUnitMeta THEN Entity(BootUnit, 2, BootType("EntityTypes.unit"))
    ELSE Entity(BootUnitMeta,
                TypeDef[CHOOSE m \in Range(EntityTypes) : BootType(m) = g].id_value,
                BootType("EntityTypes.unit"))

(* the Entity objects that create_unit constructs by hand *)
BootObj(g) ==
    IF g = BootUnit THEN Entity(BootUnit, 1, BootType("EntityTypes.unit"))
    ELSE IF g = BootUnitMeta THEN Entity(BootUnit, 2, BootType("EntityTypes.unit"))
    ELSE Entity(BootUnitMeta,
                TypeDef[CHOOSE m \in Range(EntityTypes) : BootType(m) = g].id_value,
                BootType("EntityTypes.type_meta"))

(* max(len(EntityTypes), the largest id_value of EntityTypes) *)
BootCnt ==
    CHOOSE c \in {TypeDef[m].id_value : m \in Range(EntityTypes)} \cup {Len(EntityTypes)} :
        /\ c >= Len(EntityTypes)
        /\ \A m \in Range(EntityTypes) : c >= TypeDef[m].id_value

(* Store.create_unit, second branch: the manual wiring of the two           *)
(* foundational units and the four foundational meta-types. The six Entity  *)
(* objects exist before they are stored; until _add_entity_to_store files   *)
(* each of them, the object is held under its key with no attribute map.    *)
create_unit_bootstrap(S) ==
    Let([S EXCEPT
           !.entity_map = [g \in {BootUnit, BootUnitMeta}
                                   \cup {BootType(m) : m \in Range(EntityTypes)} |->
                              [m |-> <<>>, e |-> BootObj(g)]],
           !.enum_map.units = [n \in {UNIT_ENTITY, UNIT_ENTITY_META} |->
                                 IF n = UNIT_ENTITY THEN BootUnit ELSE BootUnitMeta],
           !.enum_map.unit_names = [g \in {BootUnit, BootUnitMeta} |->
                                 IF g = BootUnit THEN UNIT_ENTITY ELSE UNIT_ENTITY_META],
           !.enum_map.types = [m \in Range(EntityTypes) |-> BootType(m)],
           !.enum_map.type_enums = [g \in {BootType(m) : m \in Range(EntityTypes)} |->
                                      CHOOSE m \in Range(EntityTypes) : BootType(m) = g]],
        LAMBDA S0 :
    Let(ForEach(Res(_add_entity_to_store(_add_entity_to_store(S0, BootObj(BootUnit)),
                                         BootObj(BootUnitMeta)), PyNone, ""),
                <<"EntityTypes.type_meta", "EntityTypes.unit",
                  "EntityTypes._entity_base", "EntityTypes.meta_field">>,
                LAMBDA X, entity_type :
                    Entity_access(_add_entity_to_store(X, BootObj(BootType(entity_type))),
                                  BootType(entity_type), "SET",
                                  PyStr(TypeDef[entity_type].name),
                                  <<FieldV("TypeMeta.name")>>)), LAMBDA r2 :
    Let(ForEach(r2, <<<<BootUnit, "UnitMeta.id_cnt", PyInt(2)>>,
                      <<BootUnit, "UnitMeta.name", PyStr(UNIT_ENTITY)>>,
                      <<BootUnitMeta, "UnitMeta.id_cnt", PyInt(BootCnt)>>,
                      <<BootUnitMeta, "UnitMeta.name", PyStr(UNIT_ENTITY_META)>> >>,
                LAMBDA X, s : Entity_access(X, s[1], "SET", s[3], <<FieldV(s[2])>>)),
        LAMBDA r6 :
    Res(r6.S, Ent(BootUnitMeta), r6.err))))

(* variant of create_unit that does not look the unit name up first *)
create_unit_always(S, unit_name) ==
    IF unit_name \notin {UNIT_ENTITY, UNIT_ENTITY_META}
    THEN create_unit_generic(S, unit_name)
    ELSE IF BootUnitMeta \notin DOMAIN S.entity_map
    THEN create_unit_bootstrap(S)
    ELSE IF unit_name \notin DOMAIN S.enum_map.units
    THEN Res(S, PyNone, "KeyError")
    ELSE Res(S, Ent(S.enum_map.units[unit_name]), "")

(* Store.create_unit *)
create_unit(S, unit_name) ==
    IF unit_name \notin {UNIT_ENTITY, UNIT_ENTITY_META}
           /\ unit_name \notin DOMAIN S.enum_map.units
    THEN create_unit_generic(S, unit_name)
    ELSE IF BootUnitMeta \notin DOMAIN S.entity_map
    THEN create_unit_bootstrap(S)
    ELSE IF unit_name \notin DOMAIN S.enum_map.units
    THEN Res(S, PyNone, "KeyError")
    ELSE Res(S, Ent(S.enum_map.units[unit_name]), "")

(* Store.load_types_from_enum, its first two loops: the field-lookup table. *)
(* The second loop formats the Enum members EntityBaseMeta.unit and        *)
(* EntityTypes._entity_base into the name it files the base fields under.  *)
load_types_lookup(S, e) ==
    LET own == UNION {{<<e[i], f>> : f \in Range(TypeDef[e[i]].fields_enum)} :
                          i \in DOMAIN e}
        name1(p) == _global_field_name(TypeDef[p[1]].unit_name, TypeDef[p[1]].name,
                                       FieldDef[p[2]].name)
        name2(f) == _global_field_name("EntityBaseMeta.unit", "EntityTypes._entity_base",
                                       FieldDef[f].name)
        base == Range(EntityBaseMeta)
        gname1 == [f \in DOMAIN S.enum_map.gname \cup {p[2] : p \in own} |->
                     IF \E p \in own : p[2] = f
                     THEN name1(CHOOSE p \in own : p[2] = f)
                     ELSE S.enum_map.gname[f]]
        fields1 == [n \in DOMAIN S.enum_map.fields \cup {name1(p) : p \in own} |->
                     IF \E p \in own : name1(p) = n
                     THEN (CHOOSE p \in own : name1(p) = n)[2]
                     ELSE S.enum_map.fields[n]]
    IN [S EXCEPT
          !.enum_map.gname = [f \in DOMAIN gname1 \cup base |->
                                IF f \in base THEN name2(f) ELSE gname1[f]],
          !.enum_map.fields = [n \in DOMAIN fields1 \cup {name2(f) : f \in base} |->
                                IF \E f \in base : name2(f) = n
                                THEN CHOOSE f \in base : name2(f) = n
                                ELSE fields1[n]]]

(* a variant of the raise of the counter that sets it without comparing *)
raise_counter_always(S, unit, n) ==
    Entity_access(S, unit, "SET", PyInt(n), <<FieldV("UnitMeta.id_cnt")>>)

(* cnt = unit.access(GET, 0, id_cnt); if n > cnt: unit.access(SET, n, id_cnt) *)
raise_counter(S, unit, n) ==
    Let(Entity_access(S, unit, "GET", PyInt(0), <<FieldV("UnitMeta.id_cnt")>>), LAMBDA cnt :
    IF cnt.err /= "" THEN cnt
    ELSE IF cnt.rv.t /= "int" THEN Res(cnt.S, PyNone, "TypeError")
    ELSE IF n > cnt.rv.v
    THEN Entity_access(cnt.S, unit, "SET", PyInt(n), <<FieldV("UnitMeta.id_cnt")>>)
    ELSE cnt)

(* Store.load_types_from_enum, third loop, lines 174-184: rv is field_meta_type *)
load_types_meta_type(S, unit, meta_type) ==
    IF meta_type \in DOMAIN S.enum_map.types
    THEN Res(S, S.enum_map.types[meta_type], "")
    ELSE Let(Then(raise_counter(S, unit, TypeDef[meta_type].id_value),
                  LAMBDA X : Access(X, "GET", PyNone,
                                    <<PyStr(TypeDef[meta_type].unit_name),
                                      PyInt(TypeDef[meta_type].id_value),
                                      TypeV("EntityTypes.type_meta")>>)), LAMBDA t2 :
         IF t2.err /= "" THEN t2
         ELSE Let(Entity_access(t2.S, t2.rv.v, "SET", PyStr(TypeDef[meta_type].name),
                                <<FieldV("TypeMeta.name")>>), LAMBDA t3 :
              IF t3.err /= "" THEN t3
              ELSE Res([t3.S EXCEPT !.enum_map.types = Put(@, meta_type, t2.rv.v),
                                    !.enum_map.type_enums = Put(@, t2.rv.v, meta_type)],
                       t2.rv.v, "")))

(* Store.load_types_from_enum, third loop, lines 191-198: one field entity *)
load_types_field(S, meta_type, field) ==
    Let(Access(S, "GET", PyNone,
               <<PyStr(TypeDef[meta_type].unit_name), PyInt(FieldDef[field].id_value),
                 TypeV("EntityTypes.meta_field")>>), LAMBDA a :
    IF a.err /= "" THEN a
    ELSE ForEach(a, <<<<"MetaField.name", PyStr(FieldDef[field].name)>>,
                      <<"MetaField.order", PyInt(FieldDef[field].order_value)>>,
                      <<"MetaField.global_name",
                        PyStr(_global_field_name(TypeDef[meta_type].unit_name,
                                                 TypeDef[meta_type].name,
                                                 FieldDef[field].name))>> >>,
                 LAMBDA Y, s : Entity_access(Y, a.rv.v, "SET", s[2], <<FieldV(s[1])>>)))

(* variant of max_id_value that keeps the id of the first field only *)
max_id_value_first(meta_type) ==
    FieldDef[TypeDef[meta_type].fields_enum[1]].id_value

(* max_id_value of the fields of a meta-type *)
max_id_value(meta_type) ==
    LET ids == {FieldDef[f].id_value : f \in Range(TypeDef[meta_type].fields_enum)}
    IN IF \E n \in ids : n > 0 THEN CHOOSE n \in ids : \A k \in ids : n >= k ELSE 0

(* Store.load_types_from_enum, one pass of its third loop *)
load_types_one(S, meta_type) ==
    Let(create_unit(S, TypeDef[meta_type].unit_name), LAMBDA u :
    IF u.err /= "" THEN u
    ELSE
    Let(load_types_meta_type(u.S, u.rv.v, meta_type), LAMBDA t :
    IF t.err /= "" THEN t
    ELSE
    Let(ForEach(ForEach(Res(t.S, PyNone, ""), TypeDef[meta_type].fields_enum,
                        LAMBDA X, field : load_types_field(X, meta_type, field)),
                TypeDef[meta_type].fields_enum,
                LAMBDA X, field :
                    Entity_access(X, t.rv, "ADD",
                                  Ent(_ref(X, PyStr(TypeDef[meta_type].unit_name),
                                           FieldDef[field].id_value,
                                           TypeV("EntityTypes.meta_field"))),
                                  <<FieldV("TypeMeta.fields")>>)), LAMBDA f2 :
    IF max_id_value(meta_type) > 0
    THEN Then(f2, LAMBDA X : raise_counter(X, u.rv.v, max_id_value(meta_type)))
    ELSE f2)))

(* the dict unit_meta_types in iteration order: the units in the order of *)
(* their first meta-type, the meta-types of one unit in the order of e    *)
unit_meta_types(e) ==
    LET same(i, m) == TypeDef[m].unit_name = TypeDef[e[i]].unit_name
        group(i) == IF \A j \in 1 .. (i - 1) : ~same(i, e[j])
                    THEN SelectSeq(e, LAMBDA m : same(i, m))
                    ELSE <<>>
        cat[i \in 0 .. Len(e)] == IF i = 0 THEN <<>> ELSE cat[i - 1] \o group(i)
    IN cat[Len(e)]

(* Store.load_types_from_enum: e is the sequence of the Enum's members. The *)
(* unit and the field_meta_type of a member are, after its pass of the      *)
(* third loop, the entries enum_map[unit_name] and enum_map[meta_type].     *)
load_types_from_enum(S, e) ==
    Let(ForEach(ForEach(Res(load_types_lookup(S, e), PyNone, ""), e,
                        LAMBDA X, meta_type : load_types_one(X, meta_type)),
                unit_meta_types(e),
                LAMBDA X, m :
                    Entity_access(X, X.enum_map.units[TypeDef[m].unit_name], "ADD",
                                  Ent(X.enum_map.types[m]),
                                  <<FieldV("UnitMeta.meta_types")>>)), LAMBDA last :
    Res(last.S, PyNone, last.err))

(* a SqlPersist object before generate_schema, on an empty database *)
NoPersister == [persisted_types |-> {}, unit_meta_unit |-> <<>>, tables |-> {},
                rows |-> {}]

(* the module's initialisation: empty maps, load_types_from_enum(EntityTypes), *)
(* then the message hook                                                       *)
Empty == [entity_map |-> <<>>,
          enum_map |-> [units |-> <<>>, unit_names |-> <<>>, types |-> <<>>,
                        type_enums |-> <<>>, gname |-> <<>>, fields |-> <<>>],
          msgs |-> <<>>, hooked |-> FALSE, issued |-> <<>>,
          sql_persister |-> NoPersister, sql |-> <<>>, res |-> <<>>]

Initial == [load_types_from_enum(Empty, EntityTypes).S EXCEPT !.hooked = TRUE]

(***************************************************************************)
(* The state machine.  entity_map and enum_map are the module globals      *)
(* _entity_map and _enum_map; issued is the history of the ids returned by *)
(* increment_unit_counter; ret describes the last call: its arguments, the *)
(* value returned or the exception raised, the messages it sent and the    *)
(* value the addressed field held before the call.                         *)
(***************************************************************************)
Cur == [entity_map |-> entity_map, enum_map |-> enum_map, msgs |-> <<>>,
        hooked |-> TRUE, issued |-> issued, sql_persister |-> sql_persister,
        sql |-> <<>>, res |-> <<>>]

(* no result of to_json is at hand *)
NoDoc == [of |-> "", json |-> <<>>, orig |-> <<>>]

NoCall == [op |-> "init", path |-> <<>>, value |-> PyNone, rv |-> PyNone,
           err |-> "", msgs |-> <<>>, pre |-> PyNone, sql |-> <<>>, res |-> <<>>]

(* the threads of the embedding application that call Store.access: where *)
(* each one stands in its call, the value it read, the id it received,     *)
(* and the application's mutex (0: free)                                   *)
Callers == 1 .. MaxCallers

Idle == [pc |-> "idle", old |-> PyNone, entity_id |-> PyNone]

NoCallers == [serialized |-> FALSE, mutex |-> 0, of |-> [c \in Callers |-> Idle]]

(* the module globals of dust/persist/sqlpersist.py and the calls of       *)
(* init_sql_persist under way: the enums initiated, the instance in        *)
(* _sql_persister (0: None) and the instances made, the calls still to be  *)
(* made with the dependencies deps_func returns, and how often             *)
(* generate_schema was called by init_sql_persist and was run at all       *)
InitEnums == {"UserTypes", "MetaTypes", "EntityTypes"}

NoSqlInit ==
    [_types_initiated |-> {}, _sql_persister |-> 0, created |-> 0,
     pending |-> <<>>, deps |-> [e \in InitEnums |-> <<>>],
     called |-> [e \in InitEnums |-> 0], generated |-> [e \in InitEnums |-> 0]]

Commit(r, call) ==
    /\ entity_map' = [g \in DOMAIN r.S.entity_map |-> r.S.entity_map[g]]
    /\ enum_map' = r.S.enum_map
    /\ issued' = r.S.issued
    /\ sql_persister' = r.S.sql_persister
    /\ json_doc' = json_doc
    /\ callers' = callers
    /\ sql_init' = sql_init
    /\ ret' = [call EXCEPT !.rv = r.rv, !.err = r.err, !.msgs = r.S.msgs,
                            !.sql = r.S.sql, !.res = r.S.res]

Init ==
    \E S \in {Initial} :
        /\ entity_map = [g \in DOMAIN S.entity_map |-> S.entity_map[g]]
        /\ enum_map = S.enum_map
        /\ issued = S.issued
        /\ sql_persister = S.sql_persister
        /\ json_doc = NoDoc
        /\ ret = NoCall
        /\ callers = NoCallers
        /\ sql_init = NoSqlInit

UserUnits == {UNIT_USER, UNIT_OTHER}
ExplicitIds == {8}

Issued(S, unit_name) == IF unit_name \in DOMAIN S.issued THEN S.issued[unit_name] ELSE <<>>

Call(op, value, path) == [NoCall EXCEPT !.op = op, !.value = value, !.path = path]

(* Store.create_unit(unit_name) *)
CreateUnit ==
    \E unit_name \in UserUnits \cup {UNIT_ENTITY, UNIT_ENTITY_META} :
        /\ Len(Issued(Cur, UNIT_ENTITY)) < MaxAuto
        /\ Commit(create_unit(Cur, unit_name),
                  Call("create_unit", PyNone, <<PyStr(unit_name)>>))

(* Store.load_types_from_enum(UserTypes) *)
LoadTypes ==
    /\ Len(Issued(Cur, UNIT_ENTITY)) < MaxAuto
    /\ Commit(load_types_from_enum(Cur, UserTypes),
              Call("load_types_from_enum", PyNone, <<>>))

(* Store.load_types_from_enum(MetaTypes): types declared under a unit named *_meta *)
LoadMetaTypes ==
    /\ Len(Issued(Cur, UNIT_ENTITY)) < MaxAuto
    /\ Commit(load_types_from_enum(Cur, MetaTypes),
              [Call("load_types_from_enum", TypeV(MetaTypes[1]), <<>>)
                  EXCEPT !.pre = DOMAIN entity_map])

(* Store.access(Operation.GET, None, unit_name, None, meta_type): the id is omitted *)
CreateAuto ==
    \E unit_name \in UserUnits, meta_type \in Range(UserTypes) :
        /\ Len(Issued(Cur, unit_name)) < MaxAuto
        /\ Commit(Access(Cur, "GET", PyNone, <<PyStr(unit_name), PyNone, TypeV(meta_type)>>),
                  Call("GET", PyNone, <<PyStr(unit_name), PyNone, TypeV(meta_type)>>))

(* Store.access(Operation.GET, None, unit_name, entity_id, meta_type) *)
CreateExplicit ==
    \E unit_name \in {UNIT_USER}, entity_id \in ExplicitIds, meta_type \in Range(UserTypes) :
        /\ Commit(Access(Cur, "GET", PyNone,
                         <<PyStr(unit_name), PyInt(entity_id), TypeV(meta_type)>>),
                  Call("GET", PyNone,
                       <<PyStr(unit_name), PyInt(entity_id), TypeV(meta_type)>>))

Next == CreateUnit \/ LoadTypes \/ LoadMetaTypes \/ CreateAuto \/ CreateExplicit

Spec == Init /\ [][Next]_vars

(***************************************************************************)
(* Field access on a populated store: the client schema is registered and  *)
(* one entity of each user type exists. SpecSingle runs the operations on  *)
(* the scalar-slot fields (SINGLE, MAP), SpecMulti those on the container  *)
(* fields (SET, LIST).                                                     *)
(***************************************************************************)
EntA == _ref(Empty, PyStr(UNIT_USER), 1, TypeV("UserTypes.A"))
EntB == _ref(Empty, PyStr(UNIT_USER), 2, TypeV("UserTypes.B"))

Populated ==
    [Then(Then(load_types_from_enum(Initial, UserTypes),
               LAMBDA X : Access(X, "GET", PyNone,
                                 <<PyStr(UNIT_USER), PyInt(1), TypeV("UserTypes.A")>>)),
          LAMBDA X : Access(X, "GET", PyNone,
                            <<PyStr(UNIT_USER), PyInt(2), TypeV("UserTypes.B")>>)).S
     EXCEPT !.msgs = <<>>]

InitPopulated ==
    \E S \in {Populated} :
        /\ entity_map = [g \in DOMAIN S.entity_map |-> S.entity_map[g]]
        /\ enum_map = S.enum_map
        /\ issued = S.issued
        /\ sql_persister = S.sql_persister
        /\ json_doc = NoDoc
        /\ ret = NoCall
        /\ callers = NoCallers
        /\ sql_init = NoSqlInit

(* what the addressed field and its entity held before a call: the value   *)
(* GET returns, the stored value, and the two places of the committed flag *)
Pre(S, g, f) ==
    [got |-> _access_data_get_value(S, Ent(g), FieldV(f), PyNone).rv,
     has |-> S.enum_map.gname[f] \in DOMAIN S.entity_map[g].m,
     raw |-> DictGet(S.entity_map[g].m, S.enum_map.gname[f]),
     committed |-> S.entity_map[g].e.committed,
     flag |-> S.entity_map[g].m[_get_base_fields[4]]]

(* entity.access(operation, value, field) *)
FieldCall(g, operation, value, f) ==
    Commit(Entity_access(Cur, g, operation, value, <<FieldV(f)>>),
           [Call(operation, value, <<PyStr(g), FieldV(f)>>) EXCEPT !.pre = Pre(Cur, g, f)])

ScalarFields == {<<EntA, "AFields.num">>, <<EntA, "AFields.props">>,
                 <<EntB, "BFields.ref">>}
MultiFields == {<<EntA, "AFields.tags">>, <<EntA, "AFields.items">>,
                <<EntB, "BFields.refs">>}

(* the values the model passes for a field *)
ValuesOf(f) ==
    IF FieldDef[f].datatype = "ENTITY" THEN {Ent(EntA), Ent(EntB)}
    ELSE IF FieldDef[f].valuetype = "MAP"
    THEN {PyDict(<<>>), PyDict([k \in {"k"} |-> PyInt(1)])}
    ELSE IF FieldDef[f].valuetype = "SINGLE" THEN {PyInt(0), PyInt(1)}
    ELSE {PyInt(1), PyInt(2)}

Deltas == {0, 1, 0 - 1}

(* entity.access(Operation.SET, value, field) on a SINGLE or MAP field *)
SetScalar ==
    \E t \in ScalarFields : \E value \in ValuesOf(t[2]) :
        /\ FieldCall(t[1], "SET", value, t[2])

(* entity.access(Operation.CHANGE, d, AFields.num) *)
ChangeNum ==
    \E d \in Deltas :
        /\ LET old == DictGet(entity_map[EntA].m, enum_map.gname["AFields.num"])
           IN old.t = "int" => old.v + d \in 0 .. MaxNum
        /\ FieldCall(EntA, "CHANGE", PyInt(d), "AFields.num")

(* entity.access(Operation.GET, None, field) *)
GetScalar ==
    \E t \in ScalarFields :
        /\ FieldCall(t[1], "GET", PyNone, t[2])

(* the value a caller passes to GET as the default *)
DefaultValue == PyStr("default")

(* entity.access(Operation.GET, default, field) *)
GetDefault ==
    \E t \in ScalarFields :
        /\ FieldCall(t[1], "GET", DefaultValue, t[2])

(* the two-step paths of the calls: a field and a key into its value *)
ElementPaths ==
    {<<EntA, "AFields.props", PyStr("k")>>, <<EntA, "AFields.tags", PyInt(0)>>,
     <<EntA, "AFields.items", PyInt(0)>>, <<EntB, "BFields.ref", FieldV("AFields.num")>>}

(* entity.access(operation, value, field, key) *)
ElementCall(g, operation, value, f, key) ==
    Commit(Entity_access(Cur, g, operation, value, <<FieldV(f), key>>),
           [Call(operation, value, <<PyStr(g), FieldV(f), key>>)
               EXCEPT !.pre = Pre(Cur, g, f)])

(* entity.access(Operation.GET, None, field, key) *)
GetElement ==
    \E t \in ElementPaths :
        /\ ElementCall(t[1], "GET", PyNone, t[2], t[3])

(* entity.access(Operation.DEL, None, field) and                          *)
(* entity.access(Operation.DEL, None, field, key)                         *)
DelValue ==
    \/ \E t \in ScalarFields :
           /\ FieldCall(t[1], "DEL", PyNone, t[2])
    \/ \E t \in ElementPaths :
           /\ ElementCall(t[1], "DEL", PyNone, t[2], t[3])

NextSingle == SetScalar \/ ChangeNum \/ GetScalar \/ GetDefault \/ GetElement \/ DelValue

SpecSingle == InitPopulated /\ [][NextSingle]_vars

(* entity.access(Operation.ADD, value, field) on a SET or LIST field *)
AddMember ==
    \E t \in MultiFields : \E value \in ValuesOf(t[2]) :
        /\ LET old == DictGet(entity_map[t[1]].m, enum_map.gname[t[2]])
           IN old.t = "list" => Len(old.v) < MaxLen
        /\ FieldCall(t[1], "ADD", value, t[2])

(* entity.access(Operation.GET, None, field) *)
GetMulti ==
    \E t \in MultiFields :
        /\ FieldCall(t[1], "GET", PyNone, t[2])

NextMulti == AddMember \/ GetMulti

SpecMulti == InitPopulated /\ [][NextMulti]_vars

(***************************************************************************)
(* dust/persist: SqlPersist with the MySQL dialect.  S.sql_persister holds *)
(* the object's __persisted_types and __unit_meta_unit and the database it *)
(* connects to (tables, rows); S.sql is the sequence of statements handed  *)
(* to cursor.execute during the call. A row is [table, cols], cols a map   *)
(* from column name to value.                                              *)
(***************************************************************************)
Committed == {"CREATED", "UPDATED", "DELETED", "SAVED"}

CommittedV(c) == [t |-> "committed", v |-> c]

Stmt(kind, table, values) == [kind |-> kind, table |-> table, values |-> values]

MapSeq(s, Op(_)) == [i \in DOMAIN s |-> Op(s[i])]

(* every order in which the members of X can be enumerated *)
PermSeqs(X) == {s \in [1 .. Cardinality(X) -> X] : Range(s) = X}

IsMulti(f) == FieldDef[f].valuetype \in {"LIST", "SET"}

(* type_name[0] != "_" over the type names of the model *)
IsPublicName(name) == name \notin {"_" \o n : n \in {"entity_base"} \cup TypeNames}

(* SqlPersist.__table_name *)
table_name(S, unit_meta) ==
    S.sql_persister.unit_meta_unit[unit_meta] \o "_" \o TypeDef[unit_meta].name

(* SqlTable: the table name, the column names in order, and which of them *)
(* are primary keys or base fields                                        *)
SqlTable(name, fields, primary_keys, base_fields) ==
    [table_name |-> name, fields |-> fields, primary_keys |-> primary_keys,
     base_fields |-> base_fields]

(* variant of sql_tables that gives the table of the type a column for *)
(* every base field, the committed flag included                       *)
sql_tables_all_base(tname, fields_enum) ==
    Let(MapSeq(EntityBaseMeta, LAMBDA b : "_" \o FieldDef[b].name), LAMBDA base :
    <<SqlTable(tname,
               <<"_global_id">> \o base
                   \o MapSeq(SelectSeq(fields_enum, LAMBDA f : ~IsMulti(f)),
                             LAMBDA f : "_" \o FieldDef[f].name),
               {"_global_id"}, {"_global_id"} \cup Range(base))>>
    \o MapSeq(SelectSeq(fields_enum, IsMulti),
              LAMBDA f : SqlTable(tname \o "_" \o FieldDef[f].name,
                                  <<"_global_id", "_value_cnt",
                                    "_" \o FieldDef[f].name \o "_value">>,
                                  {"_global_id", "_value_cnt"},
                                  {"_global_id", "_value_cnt"})))

(* SqlPersist.__sql_tables: the table of the type, then one table for each *)
(* LIST or SET field                                                       *)
sql_tables(tname, fields_enum) ==
    Let(MapSeq(SelectSeq(EntityBaseMeta, LAMBDA b : b /= "EntityBaseMeta.committed"),
               LAMBDA b : "_" \o FieldDef[b].name), LAMBDA base :
    <<SqlTable(tname,
               <<"_global_id">> \o base
                   \o MapSeq(SelectSeq(fields_enum, LAMBDA f : ~IsMulti(f)),
                             LAMBDA f : "_" \o FieldDef[f].name),
               {"_global_id"}, {"_global_id"} \cup Range(base))>>
    \o MapSeq(SelectSeq(fields_enum, IsMulti),
              LAMBDA f : SqlTable(tname \o "_" \o FieldDef[f].name,
                                  <<"_global_id", "_value_cnt",
                                    "_" \o FieldDef[f].name \o "_value">>,
                                  {"_global_id", "_value_cnt"},
                                  {"_global_id", "_value_cnt"})))

(* the rows of a table *)
TableRows(S, tname) == {r \in S.sql_persister.rows : r.table = tname}

(* cursor.execute(sql, values) of the statement the template renders for   *)
(* sql_table: CREATE TABLE IF NOT EXISTS, INSERT of all columns, UPDATE of *)
(* the columns that are neither key nor base field WHERE the key matches,  *)
(* DELETE WHERE _global_id matches, SELECT of all rows                     *)
execute(S, kind, sql_table, values) ==
    Let([S EXCEPT !.sql = Append(@, Stmt(kind, sql_table.table_name, values))], LAMBDA X :
    IF kind = "CREATE"
    THEN Res([X EXCEPT !.sql_persister.tables = @ \cup {sql_table.table_name}], PyNone, "")
    ELSE IF sql_table.table_name \notin X.sql_persister.tables
    THEN Res(X, PyNone, "ProgrammingError")
    ELSE IF kind = "INSERT"
    THEN IF \E r \in TableRows(X, sql_table.table_name) :
                \A k \in sql_table.primary_keys : r.cols[k] = values[k]
         THEN Res(X, PyNone, "IntegrityError")
         ELSE Res([X EXCEPT !.sql_persister.rows =
                      @ \cup {[table |-> sql_table.table_name,
                               cols |-> [c \in Range(sql_table.fields) |-> values[c]]]}],
                  PyNone, "")
    ELSE IF kind = "UPDATE"
    THEN IF Range(sql_table.fields) \subseteq sql_table.base_fields
         THEN Res(X, PyNone, "ProgrammingError")
         ELSE Res([X EXCEPT !.sql_persister.rows =
                      {IF r.table = sql_table.table_name
                          /\ r.cols["_global_id"] = values["_global_id"]
                       THEN [r EXCEPT !.cols =
                               [c \in DOMAIN r.cols |->
                                   IF c \in sql_table.base_fields THEN r.cols[c]
                                   ELSE values[c]]]
                       ELSE r : r \in @}],
                  PyNone, "")
    ELSE IF kind = "DELETE"
    THEN Res([X EXCEPT !.sql_persister.rows =
                 {r \in @ : ~(r.table = sql_table.table_name
                              /\ r.cols["_global_id"] = values["_global_id"])}],
             PyNone, "")
    ELSE Res(X, PyNone, ""))

(* MySQLPersist.convert_value_to_db *)
convert_value_to_db(S, field, value) ==
    IF FieldDef[field].datatype = "BOOL"
    THEN PyInt(IF value = PyBool(TRUE) THEN 1 ELSE 0)
    ELSE IF FieldDef[field].datatype = "ENTITY" /\ value.t = "entity"
    THEN PyStr(global_id(S, Obj(S, value.v)))
    ELSE value

(* MySQLPersist.convert_value_from_db *)
convert_value_from_db(field, value) ==
    IF FieldDef[field].datatype = "BOOL" THEN PyBool(value = PyInt(1)) ELSE value

(* json.dumps / json.loads of a dict: the text is told apart from the dict *)
json_dumps(value) == [t |-> "str", v |-> [json |-> value]]
json_loads(text) == text.v.json

(* SqlPersist.map_value_to_db. order lists the members of a set in the     *)
(* order in which the iteration over the set yields them                   *)
map_value_to_db(S, field, g, order) ==
    Let(Entity_access(S, g, "GET", PyNone, <<FieldV(field)>>), LAMBDA got :
    IF got.err /= "" \/ got.rv = PyNone THEN got
    ELSE IF FieldDef[field].valuetype = "SINGLE"
    THEN Res(got.S, convert_value_to_db(got.S, field, got.rv), "")
    ELSE IF FieldDef[field].valuetype = "SET"
    THEN Res(got.S, PyList(MapSeq(SelectSeq(order, LAMBDA v : v \in DOMAIN got.rv.v),
                                  LAMBDA v : convert_value_to_db(got.S, field, v))), "")
    ELSE IF FieldDef[field].valuetype = "LIST"
    THEN Res(got.S, PyList(MapSeq(got.rv.v,
                                  LAMBDA v : convert_value_to_db(got.S, field, v))), "")
    ELSE Res(got.S, json_dumps(got.rv), ""))

(* SqlPersist.map_value_from_db *)
map_value_from_db(field, value) ==
    IF value = PyNone THEN PyNone
    ELSE IF FieldDef[field].valuetype = "MAP" THEN json_loads(value)
    ELSE convert_value_from_db(field, value)

(* the execute params of insert_entity / update_entity: rv.values maps the *)
(* columns of the type's table, rv.multivalues maps each field table to    *)
(* the list of the field's values                                          *)
entity_values(S, g, meta_type, tname, order) ==
    Let([f \in Range(TypeDef[meta_type].fields_enum) |-> map_value_to_db(S, f, g, order)],
        LAMBDA got :
    IF \E f \in DOMAIN got : got[f].err /= ""
    THEN Res(S, PyNone,
             got[SelectSeq(TypeDef[meta_type].fields_enum,
                           LAMBDA f : got[f].err /= "")[1]].err)
    ELSE Res(S,
             [values |->
                 [c \in {"_global_id", "_unit", "_meta_type", "_entity_id"}
                        \cup {"_" \o FieldDef[f].name : f \in {x \in DOMAIN got : ~IsMulti(x)}} |->
                     IF c = "_global_id" THEN PyStr(global_id(S, Obj(S, g)))
                     ELSE IF c = "_unit" THEN PyStr(Obj(S, g).unit)
                     ELSE IF c = "_meta_type" THEN PyStr(Obj(S, g).meta_type)
                     ELSE IF c = "_entity_id" THEN PyInt(Obj(S, g).entity_id)
                     ELSE got[CHOOSE f \in DOMAIN got : c = "_" \o FieldDef[f].name].rv],
              multivalues |->
                 [t \in {tname \o "_" \o FieldDef[f].name : f \in {x \in DOMAIN got : IsMulti(x)}} |->
                     got[CHOOSE f \in DOMAIN got : t = tname \o "_" \o FieldDef[f].name].rv]],
             ""))

(* MySQLPersist.__create_connection, __close_connection, __create_cursor  *)
(* and __close_cursor: S.res lists what the call acquired and released     *)
_create_connection(S) == [S EXCEPT !.res = Append(@, <<"acquire", "connection">>)]
_close_connection(S) == [S EXCEPT !.res = Append(@, <<"release", "connection">>)]
_create_cursor(S) == [S EXCEPT !.res = Append(@, <<"acquire", "cursor">>)]
_close_cursor(S) == [S EXCEPT !.res = Append(@, <<"release", "cursor">>)]

(* the connection object that _create_connection returns *)
Conn == [t |-> "connection", v |-> 0]

(* try: r finally: Cleanup *)
Finally(r, Cleanup(_)) == Let(r, LAMBDA x : Res(Cleanup(x.S), x.rv, x.err))

(* if close_connection: self._close_connection(conn) *)
close_if(S, close_connection) == IF close_connection THEN _close_connection(S) ELSE S

(* SqlPersist.__update_entity_values *)
update_entity_values(S, kind, sql_table, values) ==
    Let(Finally(execute(_create_cursor(S), kind, sql_table, values), _close_cursor), LAMBDA r :
    IF r.err /= "" THEN r ELSE Res(r.S, PyBool(TRUE), ""))

(* variant of update_entity_multivalues that numbers the rows from one *)
update_entity_multivalues_from_one(S, g, tables, multivalues, need_delete) ==
    ForEach(Res(S, PyBool(TRUE), ""), Tail(tables), LAMBDA X, sql_table :
        Then(IF need_delete
             THEN update_entity_values(X, "DELETE", sql_table,
                                       [c \in {"_global_id"} |-> PyStr(global_id(X, Obj(X, g)))])
             ELSE Res(X, PyBool(TRUE), ""),
             LAMBDA Y :
        Let(multivalues[sql_table.table_name], LAMBDA multivalues_array :
        IF multivalues_array = PyNone \/ multivalues_array.v = <<>>
        THEN Res(Y, PyBool(TRUE), "")
        ELSE ForEach(Res(Y, PyBool(TRUE), ""), [i \in DOMAIN multivalues_array.v |-> i],
                     LAMBDA Z, i :
                 update_entity_values(Z, "INSERT", sql_table,
                     [c \in Range(sql_table.fields) |->
                         IF c = "_global_id" THEN PyStr(global_id(Z, Obj(Z, g)))
                         ELSE IF c = "_value_cnt" THEN PyInt(i)
                         ELSE multivalues_array.v[i]])))))

(* SqlPersist.__update_entity_multivalues *)
update_entity_multivalues(S, g, tables, multivalues, need_delete) ==
    ForEach(Res(S, PyBool(TRUE), ""), Tail(tables), LAMBDA X, sql_table :
        Then(IF need_delete
             THEN update_entity_values(X, "DELETE", sql_table,
                                       [c \in {"_global_id"} |-> PyStr(global_id(X, Obj(X, g)))])
             ELSE Res(X, PyBool(TRUE), ""),
             LAMBDA Y :
        Let(multivalues[sql_table.table_name], LAMBDA multivalues_array :
        IF multivalues_array = PyNone \/ multivalues_array.v = <<>>
        THEN Res(Y, PyBool(TRUE), "")
        ELSE ForEach(Res(Y, PyBool(TRUE), ""), [i \in DOMAIN multivalues_array.v |-> i],
                     LAMBDA Z, i :
                 update_entity_values(Z, "INSERT", sql_table,
                     [c \in Range(sql_table.fields) |->
                         IF c = "_global_id" THEN PyStr(global_id(Z, Obj(Z, g)))
                         ELSE IF c = "_value_cnt" THEN PyInt(i - 1)
                         ELSE multivalues_array.v[i]])))))

(* entity.set_committed(): class Entity defines no such method *)
set_committed(S, obj) == Res(S, PyNone, "AttributeError")

(* the statements of insert_entity (need_delete false) and update_entity   *)
(* (need_delete true) for an entity whose type is persisted, then          *)
(* entity.set_committed()                                                  *)
write_entity(S, g, meta_type, order, kind, need_delete, close_connection) ==
    Let(sql_tables(table_name(S, meta_type), TypeDef[meta_type].fields_enum), LAMBDA tables :
    Let(entity_values(S, g, meta_type, tables[1].table_name, order), LAMBDA vals :
    IF vals.err /= ""
    THEN (* the loop over the fields is inside the try block in update_entity only *)
         IF kind = "UPDATE" THEN Finally(vals, LAMBDA X : close_if(X, close_connection))
         ELSE vals
    ELSE Then(Finally(Then(update_entity_values(vals.S, kind, tables[1], vals.rv.values),
                           LAMBDA X : update_entity_multivalues(X, g, tables,
                                          vals.rv.multivalues, need_delete)),
                      LAMBDA X : close_if(X, close_connection)),
              LAMBDA Y : set_committed(Y, Ent(g)))))

(* SqlPersist.insert_entity *)
insert_entity(S, g, order, conn) ==
    Let(IF conn = PyNone THEN _create_connection(S) ELSE S, LAMBDA X :
    Let(X.enum_map.type_enums[Obj(X, g).meta_type], LAMBDA meta_type :
    IF meta_type \in X.sql_persister.persisted_types
    THEN write_entity(X, g, meta_type, order, "INSERT", FALSE, conn = PyNone)
    ELSE Res(X, PyBool(FALSE), "")))

(* variant of update_entity that leaves the rows of the field tables in place *)
update_entity_keeping(S, g, order, conn) ==
    Let(IF conn = PyNone THEN _create_connection(S) ELSE S, LAMBDA X :
    Let(X.enum_map.type_enums[Obj(X, g).meta_type], LAMBDA meta_type :
    IF meta_type \in X.sql_persister.persisted_types
    THEN write_entity(X, g, meta_type, order, "UPDATE", FALSE, conn = PyNone)
    ELSE Res(X, PyBool(FALSE), "")))

(* SqlPersist.update_entity *)
update_entity(S, g, order, conn) ==
    Let(IF conn = PyNone THEN _create_connection(S) ELSE S, LAMBDA X :
    Let(X.enum_map.type_enums[Obj(X, g).meta_type], LAMBDA meta_type :
    IF meta_type \in X.sql_persister.persisted_types
    THEN write_entity(X, g, meta_type, order, "UPDATE", TRUE, conn = PyNone)
    ELSE Res(X, PyBool(FALSE), "")))

(* SqlPersist.persist_entities: e.committed is compared with the members   *)
(* of the enum Committed                                                   *)
persist_entities(S, entities, order) ==
    Finally(ForEach(Res(_create_connection(S), PyNone, ""), entities, LAMBDA X, g :
                IF PyEq(PyBool(Obj(X, g).committed), CommittedV("CREATED"))
                THEN insert_entity(X, g, order, Conn)
                ELSE IF PyEq(PyBool(Obj(X, g).committed), CommittedV("UPDATED"))
                THEN update_entity(X, g, order, Conn)
                ELSE Res(X, PyNone, "")),
            _close_connection)

(* the body of the loop over the rows of the type's table in load_entities *)
load_row(S, meta_type, row) ==
    Let(Access(S, "GET", PyNone, <<row.cols["_unit"]>>), LAMBDA unit_entity :
    IF unit_entity.err /= "" THEN unit_entity
    ELSE
    Let(Access(unit_entity.S, "GET", PyNone, <<row.cols["_meta_type"]>>),
        LAMBDA meta_type_entity :
    IF meta_type_entity.err /= "" THEN meta_type_entity
    ELSE
    Let(Access(meta_type_entity.S, "GET", PyNone,
               <<unit_entity.rv, row.cols["_entity_id"], meta_type_entity.rv>>),
        LAMBDA entity :
    IF entity.err /= "" THEN entity
    ELSE IF entity.rv.t /= "entity"
    THEN (* entity is None: entity.access or entity.set_committed fails *)
         Res(entity.S, PyNone, "AttributeError")
    ELSE Then(ForEach(entity, SelectSeq(TypeDef[meta_type].fields_enum,
                                        LAMBDA f : ~IsMulti(f)),
                      LAMBDA X, field :
                  Let(map_value_from_db(field, row.cols["_" \o FieldDef[field].name]),
                      LAMBDA value :
                  IF value = PyNone THEN Res(X, PyNone, "")
                  ELSE Entity_access(X, entity.rv.v, "SET", value, <<FieldV(field)>>))),
              LAMBDA Y : set_committed(Y, entity.rv)))))

(* the loop over the LIST and SET fields in load_entities: the rows of the *)
(* field's table come in the order fetched[table]                          *)
load_multivalues(S, meta_type, tables, global_ids, fetched) ==
    ForEach(Res(S, PyNone, ""), SelectSeq(TypeDef[meta_type].fields_enum, IsMulti),
            LAMBDA X, field :
        Let(CHOOSE t \in Range(tables) :
                t.table_name = tables[1].table_name \o "_" \o FieldDef[field].name,
            LAMBDA multivalue_sql_table :
        Finally(
        Then(execute(_create_cursor(X), "SELECT", multivalue_sql_table, <<>>), LAMBDA Y :
        ForEach(Res(Y, PyNone, ""), fetched[multivalue_sql_table.table_name],
                LAMBDA Z, row :
            IF row.cols["_global_id"] \in global_ids
            THEN Then(Entity_access(Z, row.cols["_global_id"].v, "ADD",
                                    map_value_from_db(field,
                                        row.cols[multivalue_sql_table.fields[3]]),
                                    <<FieldV(field)>>),
                      LAMBDA W : set_committed(W, Ent(row.cols["_global_id"].v)))
            ELSE Res(Z, PyNone, ""))),
        _close_cursor)))

(* SqlPersist.load_entities(meta_type): fetched[table] is the sequence of *)
(* rows that fetchall returns for the SELECT on the table                 *)
load_entities(S, meta_type, fetched) ==
    Finally(
    IF meta_type \notin DOMAIN S.sql_persister.unit_meta_unit
    THEN Res(_create_connection(S), PyNone, "KeyError")
    ELSE
    Let(sql_tables(table_name(S, meta_type), TypeDef[meta_type].fields_enum), LAMBDA tables :
    Then(Then(Finally(Then(execute(_create_cursor(_create_connection(S)), "SELECT",
                                   tables[1], <<>>),
                           LAMBDA X : ForEach(Res(X, PyNone, ""),
                                              fetched[tables[1].table_name],
                                              LAMBDA Y, row : load_row(Y, meta_type, row))),
                      _close_cursor),
              LAMBDA X : load_multivalues(X, meta_type, tables,
                             {r.cols["_global_id"] : r \in Range(fetched[tables[1].table_name])},
                             fetched)),
         LAMBDA X : Res(X, PyList(MapSeq(fetched[tables[1].table_name],
                                         LAMBDA r : Ent(r.cols["_global_id"].v))), ""))),
    _close_connection)

(* MySQLPersist.table_exits, whose answer __table_exists_internal drops *)
table_exits(S) == _close_cursor(_create_cursor(S))

(* the loop of generate_schema over the members of unit_meta_enums; the    *)
(* exceptions of create_table are caught                                   *)
generate_schema_tables(S, unit_name, unit_meta_enums) ==
    ForEach(Res(S, PyNone, ""), unit_meta_enums, LAMBDA X, unit_meta :
        Let([X EXCEPT !.sql_persister.unit_meta_unit = Put(@, unit_meta, unit_name),
                      !.sql_persister.persisted_types = @ \cup {unit_meta}], LAMBDA Y :
        IF IsPublicName(TypeDef[unit_meta].name)
        THEN ForEach(Res(table_exits(Y), PyNone, ""),
                     sql_tables(table_name(Y, unit_meta), TypeDef[unit_meta].fields_enum),
                     LAMBDA Z, sql_table :
                         Finally(execute(_create_cursor(Z), "CREATE", sql_table, <<>>),
                                 _close_cursor))
        ELSE Res(Y, PyNone, "")))

(* SqlPersist.generate_schema, with __generate_base_schema *)
generate_schema(S, unit_name, unit_meta_enums) ==
    Finally(Then(generate_schema_tables(_create_connection(S), unit_name, unit_meta_enums),
                 LAMBDA X :
                     IF "EntityTypes.unit" \notin X.sql_persister.persisted_types
                     THEN generate_schema_tables(X, UNIT_ENTITY, EntityTypes)
                     ELSE Res(X, PyNone, "")),
            _close_connection)

(***************************************************************************)
(* SpecSql: the persistence calls on the populated store, between ADDs to  *)
(* the SET and the LIST field of the entity of type A.                     *)
(***************************************************************************)
(* the orders in which an iteration can yield the members of the SET       *)
(* fields of the given entities                                            *)
SetOrders(S, gs) ==
    PermSeqs(UNION {UNION {DOMAIN S.entity_map[g].m[k].v :
                             k \in {x \in DOMAIN S.entity_map[g].m :
                                       S.entity_map[g].m[x].t = "set"}} : g \in gs})

(* the results fetchall can give for the SELECTs on the named tables *)
RECURSIVE Fetches(_, _)
Fetches(S, names) ==
    IF names = {} THEN {<<>>}
    ELSE LET n == CHOOSE x \in names : TRUE
         IN  {Put(f, n, p) : f \in Fetches(S, names \ {n}), p \in PermSeqs(TableRows(S, n))}

(* the names of the tables of a type, once generate_schema has seen it *)
TablesOf(S, meta_type) ==
    IF meta_type \in DOMAIN S.sql_persister.unit_meta_unit
    THEN {t.table_name : t \in Range(sql_tables(table_name(S, meta_type),
                                                TypeDef[meta_type].fields_enum))}
    ELSE {}

(* the attribute committed of the given entities *)
CommittedOf(S, gs) == [g \in gs |-> PyBool(S.entity_map[g].e.committed)]

(* _sql_persister.generate_schema(unit_name, UserTypes), as init_sql_persist calls it *)
GenerateSchema ==
    /\ Commit(generate_schema(Cur, UNIT_USER, UserTypes),
              Call("generate_schema", PyNone, <<PyStr(UNIT_USER)>>))

(* entity.access(Operation.ADD, value, field) on the SET and the LIST field of EntA *)
AddValue ==
    \E f \in {"AFields.tags", "AFields.items"} : \E value \in ValuesOf(f) :
        /\ LET old == DictGet(entity_map[EntA].m, enum_map.gname[f])
           IN old.t = "list" => Len(old.v) < MaxRows
        /\ FieldCall(EntA, "ADD", value, f)

(* _sql_persister.insert_entity(entity) *)
InsertEntity ==
    \E g \in {EntA, EntB} : \E order \in SetOrders(Cur, {g}) :
        /\ Commit(insert_entity(Cur, g, order, PyNone),
                  [Call("insert_entity", Ent(g), <<>>) EXCEPT !.pre = CommittedOf(Cur, {g})])

(* _sql_persister.update_entity(entity) *)
UpdateEntity ==
    \E g \in {EntA, EntB} : \E order \in SetOrders(Cur, {g}) :
        /\ Commit(update_entity(Cur, g, order, PyNone),
                  [Call("update_entity", Ent(g), <<>>) EXCEPT !.pre = CommittedOf(Cur, {g})])

(* persist_entities(entities) *)
PersistEntities ==
    \E entities \in {<<EntA>>, <<EntB, EntA>>} : \E order \in SetOrders(Cur, Range(entities)) :
        /\ Commit(persist_entities(Cur, entities, order),
                  [Call("persist_entities", PyList(MapSeq(entities, Ent)), <<>>)
                      EXCEPT !.pre = CommittedOf(Cur, Range(entities))])

(* _sql_persister.load_entities(meta_type) *)
LoadEntities ==
    \E meta_type \in Range(UserTypes) : \E fetched \in Fetches(Cur, TablesOf(Cur, meta_type)) :
        /\ Commit(load_entities(Cur, meta_type, fetched),
                  Call("load_entities", TypeV(meta_type), <<>>))

NextSql ==
    \/ GenerateSchema
    \/ AddValue
    \/ InsertEntity
    \/ UpdateEntity
    \/ PersistEntities
    \/ LoadEntities

SpecSql == InitPopulated /\ [][NextSql]_vars

(***************************************************************************)
(* SpecUpdate: insert_entity and update_entity of the entity of type A,    *)
(* between SETs that replace the collection of its SET and its LIST field. *)
(***************************************************************************)
(* the collections the model passes to SET for a SET or LIST field: the   *)
(* lists 1, 2, 1, ... and 2, 1, 2, ... of every length up to MaxRows, and  *)
(* the sets of the field's values                                          *)
CollectionsOf(f) ==
    IF FieldDef[f].valuetype = "LIST"
    THEN {PyList([i \in 1 .. k |-> PyInt(1 + ((i + d) % 2))]) : k \in 0 .. MaxRows, d \in 0 .. 1}
    ELSE {PySet([x \in X |-> 1]) : X \in SUBSET ValuesOf(f)}

(* the rows of all tables that belong to an entity *)
RowsOf(S, g) == {r \in S.sql_persister.rows : r.cols["_global_id"] = PyStr(g)}

(* entity.access(Operation.SET, collection, field) on the SET and the LIST *)
(* field of EntA                                                           *)
SetCollection ==
    \E f \in {"AFields.tags", "AFields.items"} : \E value \in CollectionsOf(f) :
        /\ FieldCall(EntA, "SET", value, f)

(* _sql_persister.insert_entity(entity) for EntA *)
InsertA ==
    \E order \in SetOrders(Cur, {EntA}) :
        /\ Commit(insert_entity(Cur, EntA, order, PyNone),
                  [Call("insert_entity", Ent(EntA), <<>>) EXCEPT !.pre = RowsOf(Cur, EntA)])

(* _sql_persister.update_entity(entity) for EntA *)
UpdateA ==
    \E order \in SetOrders(Cur, {EntA}) :
        /\ Commit(update_entity(Cur, EntA, order, PyNone),
                  [Call("update_entity", Ent(EntA), <<>>) EXCEPT !.pre = RowsOf(Cur, EntA)])

NextUpdate ==
    \/ GenerateSchema
    \/ SetCollection
    \/ InsertA
    \/ UpdateA

SpecUpdate == InitPopulated /\ [][NextUpdate]_vars

(***************************************************************************)
(* SpecBulk: SET of bare values and of collections, and ADD of lists, on   *)
(* the SET and the LIST field of the entity of type A.                     *)
(***************************************************************************)
BulkFields == {"AFields.tags", "AFields.items"}

(* the collections of the other kind the model passes for a field: a list  *)
(* for a SET field, a set for a LIST field                                 *)
OtherCollectionsOf(f) ==
    IF FieldDef[f].valuetype = "SET" THEN CollectionsOf("AFields.items")
    ELSE {PySet([x \in {PyInt(1)} |-> 1])}

(* what the code appends to a stored list grows it by one *)
Appends(f, value) == FieldDef[f].valuetype = "LIST" /\ value.t /= "list"

(* entity.access(Operation.SET, value, field) with a bare value, a list or *)
(* a set on the SET and the LIST field of EntA                             *)
SetMulti ==
    \E f \in BulkFields :
        \E value \in ValuesOf(f) \cup CollectionsOf(f) \cup OtherCollectionsOf(f) :
            /\ LET old == DictGet(entity_map[EntA].m, enum_map.gname[f])
               IN (Appends(f, value) /\ old.t = "list") => Len(old.v) < MaxRows
            /\ FieldCall(EntA, "SET", value, f)

(* entity.access(Operation.ADD, list, field) on the SET field of EntA *)
AddList ==
    \E value \in OtherCollectionsOf("AFields.tags") :
        /\ FieldCall(EntA, "ADD", value, "AFields.tags")

NextBulk == SetMulti \/ AddList

SpecBulk == InitPopulated /\ [][NextBulk]_vars

(***************************************************************************)
(* SpecGrow: ADD of bare values and of collections of the field's own kind *)
(* onto the SET and LIST fields of the two entities.                       *)
(***************************************************************************)
GrowFields ==
    {<<EntA, "AFields.tags">>, <<EntA, "AFields.items">>, <<EntB, "BFields.links">>}

(* entity.access(Operation.ADD, value, field) with a bare value *)
AddBare ==
    \E t \in GrowFields : \E value \in ValuesOf(t[2]) :
        /\ LET old == DictGet(entity_map[t[1]].m, enum_map.gname[t[2]])
           IN old.t = "list" =>
                  Len(old.v) < (IF FieldDef[t[2]].datatype = "ENTITY" THEN MaxRows ELSE MaxLen)
        /\ FieldCall(t[1], "ADD", value, t[2])

(* entity.access(Operation.ADD, value, field) with a list for the LIST     *)
(* field and a set for the SET field                                       *)
AddOwn ==
    \E f \in BulkFields : \E value \in CollectionsOf(f) :
        /\ FieldCall(EntA, "ADD", value, f)

NextGrow == AddBare \/ AddOwn

SpecGrow == InitPopulated /\ [][NextGrow]_vars

(***************************************************************************)
(* SpecNotify: Store.access with a path that is only an entity locator,    *)
(* between SET, CHANGE and ADD calls on the fields of the two entities.    *)
(***************************************************************************)
(* the locators of the calls: a GlobalId string or unit name, id and type  *)
Locators ==
    {<<PyStr(EntA)>>, <<PyStr(UNIT_USER), PyInt(2), TypeV("UserTypes.B")>>}
        \cup {<<PyStr(UNIT_USER), PyInt(entity_id), TypeV("UserTypes.A")>> :
                 entity_id \in ExplicitIds}
        \cup {<<PyStr(_ref(Empty, PyStr(unit_name), entity_id, TypeV("UserTypes.A")))>> :
                 unit_name \in UserUnits, entity_id \in ExplicitIds}

(* Store.access(operation, None, locator) *)
LocateCall ==
    \E operation \in {"GET", "SET", "ADD", "CHANGE"} : \E path \in Locators :
        /\ Commit(Access(Cur, operation, PyNone, path), Call(operation, PyNone, path))

(* the SET, CHANGE and ADD calls of SpecNotify on fields: a number, a set *)
(* of numbers and an entity reference                                    *)
WriteCalls ==
    {<<EntA, "SET", value, "AFields.num">> : value \in ValuesOf("AFields.num")}
        \cup {<<EntA, "CHANGE", PyInt(d), "AFields.num">> : d \in Deltas}
        \cup {<<EntA, "ADD", value, "AFields.tags">> : value \in ValuesOf("AFields.tags")}
        \cup {<<EntB, "SET", Ent(EntA), "BFields.ref">>}

(* entity.access(operation, value, field) for one of WriteCalls *)
WriteCall ==
    \E c \in WriteCalls :
        /\ LET old == DictGet(entity_map[EntA].m, enum_map.gname["AFields.num"])
           IN (c[2] = "CHANGE" /\ old.t = "int") => old.v + c[3].v \in 0 .. MaxNum
        /\ FieldCall(c[1], c[2], c[3], c[4])

NextNotify == LocateCall \/ WriteCall

SpecNotify == InitPopulated /\ [][NextNotify]_vars

(***************************************************************************)
(* Entity.to_json and Entity.from_json.  json_doc is the dict the client   *)
(* got from the last to_json (json), with the entity it was made of (of)   *)
(* and what GET gave for each field of the entity at that time (orig).     *)
(***************************************************************************)
(* field.split(":"), tabulated for every name unit:type:field of the model *)
FieldNameParse ==
    LET triples == (UnitNames \cup {"EntityBaseMeta.unit"})
                       \X (TypeNames \cup {"EntityTypes._entity_base"})
                       \X {FieldDef[f].name : f \in FieldMembers}
    IN [n \in {_global_field_name(p[1], p[2], p[3]) : p \in triples} |->
           CHOOSE p \in triples : _global_field_name(p[1], p[2], p[3]) = n]

(* Store._get_field_config for three strings: rv is the member "_enum" of *)
(* the configuration                                                      *)
_get_field_config(S, unit_name, meta_type, field) ==
    Let(IF meta_type \in {TypeDef["EntityTypes.type_meta"].name,
                          TypeDef["EntityTypes.meta_field"].name}
        THEN UNIT_ENTITY_META \o ":" \o meta_type \o ":" \o field
        ELSE unit_name \o ":" \o meta_type \o ":" \o field, LAMBDA key :
    IF key \in DOMAIN S.enum_map.fields
    THEN Res(S, S.enum_map.fields[key], "")
    ELSE Res(S, PyNone, "KeyError"))

(* the configuration of the field filed under a name of an attribute map *)
field_config_of(S, field) ==
    _get_field_config(S, FieldNameParse[field][1], FieldNameParse[field][2],
                      FieldNameParse[field][3])

(* the keys of a dict, as the loop over its items takes them *)
RECURSIVE KeySeq(_)
KeySeq(keys) ==
    IF keys = {} THEN <<>>
    ELSE LET k == CHOOSE x \in keys : TRUE IN <<k>> \o KeySeq(keys \ {k})

(* Entity.to_json: order lists the members of a set in the order in which *)
(* the iteration over the set yields them                                 *)
to_json(S, g, order) ==
    Let(S.entity_map[g].m, LAMBDA entity_value_map :
    Let([field \in DOMAIN entity_value_map |-> field_config_of(S, field)], LAMBDA config :
    IF \E field \in DOMAIN config : config[field].err /= ""
    THEN Res(S, PyNone, "KeyError")
    ELSE Res(S, PyDict([field \in DOMAIN entity_value_map |->
                 IF FieldDef[config[field].rv].valuetype \in {"SET", "LIST"}
                      /\ entity_value_map[field].t \in {"list", "set"}
                 THEN PyList(IF entity_value_map[field].t = "list"
                             THEN entity_value_map[field].v
                             ELSE SelectSeq(order, LAMBDA x :
                                      x \in DOMAIN entity_value_map[field].v))
                 ELSE entity_value_map[field]]), "")))

(* variant of from_json_value that hands a list to a SET field as it is *)
from_json_value_uncoerced(field, value) == value

(* Entity.from_json, the value it passes to SET: set(value) for the list *)
(* of a SET field                                                        *)
from_json_value(field, value) ==
    IF FieldDef[field].valuetype = "SET" /\ value.t = "list"
    THEN PySet(PySetUpdate(PySetEmpty, value.v))
    ELSE value

(* Entity.from_json, the loop over the items of e_map *)
from_json_fields(S, g, e_map) ==
    ForEach(Res(S, PyNone, ""),
            KeySeq(DOMAIN e_map \ {_get_base_fields[i] : i \in 1 .. 3}),
            LAMBDA X, field :
        Let(field_config_of(X, field), LAMBDA config :
        IF config.err /= "" THEN config
        ELSE Entity_access(X, g, "SET", from_json_value(config.rv, e_map[field]),
                           <<FieldV(config.rv)>>)))

(* Entity.from_json *)
from_json(S, e_map) ==
    IF _get_base_fields[1] \notin DOMAIN e_map THEN Res(S, PyNone, "KeyError")
    ELSE IF e_map[_get_base_fields[1]].t /= "str" THEN Res(S, PyNone, "AttributeError")
    ELSE IF e_map[_get_base_fields[1]].v \notin DOMAIN GidParse
    THEN Res(S, PyNone, "IndexError")
    ELSE
    Let(Access(S, "GET", PyNone,
               <<PyStr(UNIT_ENTITY), PyInt(GidParse[e_map[_get_base_fields[1]].v][2]),
                 TypeV("EntityTypes.unit")>>), LAMBDA unit :
    IF unit.err /= "" THEN unit
    ELSE
    Let(Entity_access(unit.S, unit.rv.v, "GET", PyNone, <<FieldV("UnitMeta.name")>>),
        LAMBDA unit_name :
    IF unit_name.err /= "" THEN unit_name
    ELSE IF _get_base_fields[2] \notin DOMAIN e_map
              \/ e_map[_get_base_fields[2]].v \notin DOMAIN unit_name.S.enum_map.type_enums
              \/ _get_base_fields[3] \notin DOMAIN e_map
    THEN Res(unit_name.S, PyNone, "KeyError")
    ELSE IF e_map[_get_base_fields[3]].t /= "int"
    THEN Res(unit_name.S, PyNone,
             IF e_map[_get_base_fields[3]].t = "str" THEN "ValueError" ELSE "TypeError")
    ELSE
    Let(Access(unit_name.S, "GET", PyNone,
               <<unit_name.rv, PyInt(e_map[_get_base_fields[3]].v),
                 TypeV(unit_name.S.enum_map.type_enums[e_map[_get_base_fields[2]].v])>>),
        LAMBDA e :
    IF e.err /= "" THEN e
    ELSE Let(from_json_fields(e.S, e.rv.v, e_map), LAMBDA done :
         Res(done.S, IF done.err = "" THEN e.rv ELSE PyNone, done.err)))))

(***************************************************************************)
(* SpecJson: to_json and from_json of the entity of type A, between SETs   *)
(* and ADDs to its fields.                                                 *)
(***************************************************************************)
(* what GET gives for each declared field of an entity *)
FieldValues(S, g) ==
    [f \in Range(TypeDef[S.enum_map.type_enums[S.entity_map[g].e.meta_type]].fields_enum) |->
        _access_data_get_value(S, Ent(g), FieldV(f), PyNone).rv]

(* entity.access(SET or ADD, value, field) on the fields of EntA *)
EditField ==
    \E f \in {"AFields.num", "AFields.tags", "AFields.items"} : \E value \in ValuesOf(f) :
        /\ LET old == DictGet(entity_map[EntA].m, enum_map.gname[f])
           IN old.t = "list" => Len(old.v) < MaxLen
        /\ FieldCall(EntA, IF FieldDef[f].valuetype = "SINGLE" THEN "SET" ELSE "ADD",
                     value, f)

(* json_doc = entity.to_json() *)
ToJson ==
    \E g \in {EntA} : \E order \in SetOrders(Cur, {g}) : \E r \in {to_json(Cur, g, order)} :
        /\ json_doc' = IF r.err /= "" THEN json_doc
                       ELSE [of |-> g, json |-> r.rv.v, orig |-> FieldValues(Cur, g)]
        /\ ret' = [Call("to_json", Ent(g), <<>>) EXCEPT !.rv = r.rv, !.err = r.err]
        /\ UNCHANGED <<entity_map, enum_map, issued, sql_persister, callers, sql_init>>

(* Entity.from_json(json_doc) *)
FromJson ==
    /\ json_doc /= NoDoc
    /\ Commit(from_json(Cur, json_doc.json),
              [Call("from_json", PyDict(json_doc.json), <<>>)
                  EXCEPT !.pre = [same |-> FieldValues(Cur, json_doc.of) = json_doc.orig]])

NextJson == EditField \/ ToJson \/ FromJson

SpecJson == InitPopulated /\ [][NextJson]_vars

(***************************************************************************)
(* SpecRefs: SET, ADD and GET on the entity-typed fields of the entity of  *)
(* type B, and its to_json.                                                *)
(***************************************************************************)
RefFields == {"BFields.ref", "BFields.refs", "BFields.links"}

(* entity.access(SET or ADD, entity, field) on an entity-typed field *)
SetRef ==
    \E f \in RefFields : \E operation \in {"SET", "ADD"} : \E value \in ValuesOf(f) :
        /\ LET old == DictGet(entity_map[EntB].m, enum_map.gname[f])
           IN old.t = "list" => Len(old.v) < MaxLen
        /\ FieldCall(EntB, operation, value, f)

(* entity.access(Operation.GET, None, field) on an entity-typed field *)
GetRef ==
    \E f \in RefFields :
        /\ FieldCall(EntB, "GET", PyNone, f)

(* entity.to_json() of the entity of type B *)
JsonRef ==
    \E order \in SetOrders(Cur, {EntB}) :
        /\ Commit(to_json(Cur, EntB, order), Call("to_json", Ent(EntB), <<PyStr(EntB)>>))

NextRefs == SetRef \/ GetRef \/ JsonRef

SpecRefs == InitPopulated /\ [][NextRefs]_vars

(***************************************************************************)
(* SpecVisit: Store.access(VISIT) and Store.to_json over the whole store,  *)
(* between creations of entities and SETs on their fields.                 *)
(***************************************************************************)
(* Store.to_json(path): iterating over None or over an Entity raises      *)
(* TypeError; the elements of a list are asked for their to_json           *)
Store_to_json(S, path, order) ==
    Let(Access(S, "VISIT", PyNone, path), LAMBDA entities :
    IF entities.err /= "" THEN entities
    ELSE IF entities.rv.t /= "list" THEN Res(entities.S, PyNone, "TypeError")
    ELSE LET json_array[i \in 0 .. Len(entities.rv.v)] ==
                 IF i = 0 THEN Res(entities.S, PyList(<<>>), "")
                 ELSE Let(json_array[i - 1], LAMBDA prev :
                      IF prev.err /= "" THEN prev
                      ELSE IF entities.rv.v[i].t /= "entity"
                      THEN Res(prev.S, PyNone, "AttributeError")
                      ELSE Let(to_json(prev.S, entities.rv.v[i].v, order), LAMBDA json :
                           IF json.err /= "" THEN json
                           ELSE Res(json.S, PyList(Append(prev.rv.v, json.rv)), "")))
         IN  json_array[Len(entities.rv.v)])

(* the paths of the calls: a unit name, or a unit name and a meta-type *)
VisitPaths ==
    {<<PyStr(unit_name)>> : unit_name \in UserUnits \cup {UNIT_ENTITY}}
        \cup {<<PyStr(UNIT_USER), TypeV(meta_type)>> : meta_type \in Range(UserTypes)}

(* Store.access(Operation.VISIT, None, path) *)
VisitStore ==
    \E path \in VisitPaths :
        /\ Commit(Access(Cur, "VISIT", PyNone, path), Call("VISIT", PyNone, path))

(* the entities whose to_json a Store.to_json over the path asks for *)
Visited(S, path) ==
    Let(Access(S, "VISIT", PyNone, path), LAMBDA entities :
    IF entities.err = "" /\ entities.rv.t = "list"
    THEN {entities.rv.v[i].v : i \in DOMAIN entities.rv.v} \cap DOMAIN S.entity_map
    ELSE {})

(* Store.to_json(path) *)
StoreToJson ==
    \E path \in VisitPaths : \E order \in SetOrders(Cur, Visited(Cur, path)) :
        /\ Commit(Store_to_json(Cur, path, order), Call("Store.to_json", PyNone, path))

NextVisit == CreateExplicit \/ SetScalar \/ VisitStore \/ StoreToJson

SpecVisit == InitPopulated /\ [][NextVisit]_vars

(***************************************************************************)
(* Entity.from_json on records whose ancestry is damaged (SpecRecord).     *)
(* The record is the to_json of the entity of type A with one of the base  *)
(* fields unit, meta_type, entity_id taken out or replaced by a value that *)
(* names nothing in the store.                                             *)
(***************************************************************************)
(* a well-formed global id of a unit entity that the store does not hold *)
UnknownUnit == _ref(Initial, PyStr(UNIT_ENTITY), 9, TypeV("EntityTypes.unit"))

(* a well-formed global id of a meta-type that no enum registered *)
UnknownType == _ref(Initial, PyStr(UNIT_USER), 9, TypeV("EntityTypes.type_meta"))

Unresolvable(i) ==
    CASE i = 1 -> PyStr(UnknownUnit)
      [] i = 2 -> PyStr(UnknownType)
      [] i = 3 -> PyStr("x")

Damages == {"intact"} \cup ((1 .. 3) \X {"missing", "unresolvable"})

Damaged(e_map, d) ==
    IF d = "intact" THEN e_map
    ELSE IF d[2] = "missing"
    THEN [k \in DOMAIN e_map \ {_get_base_fields[d[1]]} |-> e_map[k]]
    ELSE [e_map EXCEPT ![_get_base_fields[d[1]]] = Unresolvable(d[1])]

(* Entity.from_json(record) *)
FromJsonRecord ==
    \E order \in SetOrders(Cur, {EntA}) : \E d \in Damages :
    \E doc \in {to_json(Cur, EntA, order)} :
        /\ doc.err = ""
        /\ Commit(from_json(Cur, Damaged(doc.rv.v, d)),
                  Call("from_json", PyDict(Damaged(doc.rv.v, d)), <<>>))

NextRecord == SetScalar \/ FromJsonRecord

SpecRecord == InitPopulated /\ [][NextRecord]_vars

(***************************************************************************)
(* The life of the entity map (SpecLife): writes, DEL,                     *)
(* registration of a further enum, creation with an explicit id and the    *)
(* persister's passes over one store.                                      *)
(***************************************************************************)
NextLife ==
    \/ SetScalar
    \/ DelValue
    \/ LoadMetaTypes
    \/ CreateExplicit
    \/ PersistEntities
    \/ LoadEntities

SpecLife == InitPopulated /\ [][NextLife]_vars

(***************************************************************************)
(* Accesses through a field that no loaded enum registered (SpecUnknown).  *)
(* MetaTypes is never loaded here, so MFields.label has no entry in the    *)
(* field lookup table _enum_map.                                           *)
(***************************************************************************)
UnknownField == "MFields.label"

(* the attribute name the field would be stored under, were it registered *)
UnknownName ==
    _global_field_name(TypeDef["MetaTypes.M"].unit_name, TypeDef["MetaTypes.M"].name,
                       FieldDef[UnknownField].name)

(* path remainders after the entity: the field applied to the entity,     *)
(* to an entity reached through a reference, or used as a key of a value  *)
UnknownPaths ==
    {<<FieldV(UnknownField)>>, <<FieldV(UnknownField), PyInt(0)>>,
     <<FieldV("BFields.ref"), FieldV(UnknownField)>>,
     <<FieldV("AFields.props"), FieldV(UnknownField)>>,
     <<FieldV("AFields.items"), FieldV(UnknownField)>>,
     <<FieldV("AFields.num"), FieldV(UnknownField)>>}

UnknownOps == {"GET", "SET", "ADD", "DEL"}

(* what the step before the last one of the path holds when the call starts *)
Holder(S, g, path) ==
    IF Len(path) = 1 \/ path[2].t /= "field" THEN Ent(g)
    ELSE _access_data_get_value(S, Ent(g), path[1], PyNone).rv

(* entity.access(operation, value, path) with the unregistered field in path *)
UnknownAccess ==
    \E g \in {EntA, EntB} : \E operation \in UnknownOps : \E path \in UnknownPaths :
        /\ Commit(Entity_access(Cur, g, operation, PyInt(1), path),
                  [Call(operation, PyInt(1), <<PyStr(g)>> \o path)
                       EXCEPT !.pre = Holder(Cur, g, path)])

(* Store.access(operation, value, unit, id, type, field) for a new explicit id *)
UnknownCreate ==
    \E entity_id \in ExplicitIds : \E operation \in UnknownOps :
        /\ Commit(Access(Cur, operation, PyInt(1),
                         <<PyStr(UNIT_USER), PyInt(entity_id), TypeV("UserTypes.A"),
                           FieldV(UnknownField)>>),
                  [Call(operation, PyInt(1),
                        <<PyStr(UNIT_USER), PyInt(entity_id), TypeV("UserTypes.A"),
                          FieldV(UnknownField)>>)
                       EXCEPT !.pre = Ent(EntA)])

NextUnknown == SetScalar \/ UnknownAccess \/ UnknownCreate

SpecUnknown == InitPopulated /\ [][NextUnknown]_vars

(***************************************************************************)
(* SpecShared: threads of one process create entities of one unit without  *)
(* an entity id.  Store.access holds no lock; its increment of the unit's  *)
(* id counter, e_map[name] += value followed by value = e_map[name], is    *)
(* three steps of the interpreter (load, store, load) between which        *)
(* another thread may run.  The application either lets its threads call   *)
(* freely or takes one mutex around every call (serialized).               *)
(***************************************************************************)
SharedUnit == enum_map.units[UNIT_USER]

CounterName == enum_map.gname["UnitMeta.id_cnt"]

InitShared ==
    \E S \in {Populated} : \E serialized \in BOOLEAN :
        /\ entity_map = [g \in DOMAIN S.entity_map |-> S.entity_map[g]]
        /\ enum_map = S.enum_map
        /\ issued = S.issued
        /\ sql_persister = S.sql_persister
        /\ json_doc = NoDoc
        /\ ret = NoCall
        /\ callers = [NoCallers EXCEPT !.serialized = serialized]
        /\ sql_init = NoSqlInit

(* the calls made so far and the ones under way *)
CallsBegun ==
    Len(Issued(Cur, UNIT_USER))
        + Cardinality({c \in Callers : callers.of[c].pc \in {"load", "store", "reload"}})

(* a thread calls Store.access(Operation.GET, None, unit, None, meta_type), *)
(* under the mutex if the application serializes                           *)
Enter(c) ==
    /\ callers.of[c].pc = "idle"
    /\ CallsBegun < MaxAuto
    /\ callers.serialized => callers.mutex = 0
    /\ callers' = [callers EXCEPT !.of[c] = [Idle EXCEPT !.pc = "load"],
                                  !.mutex = IF callers.serialized THEN c ELSE @]
    /\ UNCHANGED <<entity_map, enum_map, issued, sql_persister, json_doc, ret, sql_init>>

(* e_map[global_field_name] += value: the load of the stored counter *)
LoadCounter(c) ==
    /\ callers.of[c].pc = "load"
    /\ callers' = [callers EXCEPT !.of[c].pc = "store",
                                  !.of[c].old = entity_map[SharedUnit].m[CounterName]]
    /\ UNCHANGED <<entity_map, enum_map, issued, sql_persister, json_doc, ret, sql_init>>

(* e_map[global_field_name] += value: the store of the sum *)
StoreCounter(c) ==
    /\ callers.of[c].pc = "store"
    /\ entity_map' = [entity_map EXCEPT ![SharedUnit].m[CounterName] =
                          InplaceAdd(callers.of[c].old, PyInt(1))]
    /\ callers' = [callers EXCEPT !.of[c].pc = "reload"]
    /\ UNCHANGED <<enum_map, issued, sql_persister, json_doc, ret, sql_init>>

(* value = e_map[global_field_name], _set_uncommitted, and the return of   *)
(* the value through increment_unit_counter as the entity id               *)
ReloadCounter(c) ==
    /\ callers.of[c].pc = "reload"
    /\ entity_map' = _set_uncommitted(Cur, SharedUnit).entity_map
    /\ issued' = Put(issued, UNIT_USER,
                     Append(Issued(Cur, UNIT_USER), entity_map[SharedUnit].m[CounterName].v))
    /\ callers' = [callers EXCEPT !.of[c].pc = "locate",
                                  !.of[c].entity_id = entity_map[SharedUnit].m[CounterName]]
    /\ UNCHANGED <<enum_map, sql_persister, json_doc, ret, sql_init>>

(* the rest of Store.access: the reference of the id, the entity created   *)
(* or found under it, and the return, which frees the mutex                *)
Locate(c) ==
    /\ callers.of[c].pc = "locate"
    /\ \E meta_type \in {UserTypes[1]} :
       \E r \in {Access(Cur, "GET", PyNone,
                        <<PyStr(UNIT_USER), callers.of[c].entity_id, TypeV(meta_type)>>)} :
           /\ entity_map' = [g \in DOMAIN r.S.entity_map |-> r.S.entity_map[g]]
           /\ ret' = [Call("GET", PyNone, <<PyStr(UNIT_USER), PyNone, TypeV(meta_type)>>)
                          EXCEPT !.rv = r.rv, !.err = r.err, !.pre = PyInt(c)]
    /\ callers' = [callers EXCEPT !.of[c].pc = "done",
                                  !.mutex = IF callers.serialized THEN 0 ELSE @]
    /\ UNCHANGED <<enum_map, issued, sql_persister, json_doc, sql_init>>

(* the thread goes on to its next call *)
Again(c) ==
    /\ callers.of[c].pc = "done"
    /\ CallsBegun < MaxAuto
    /\ callers' = [callers EXCEPT !.of[c].pc = "idle"]
    /\ UNCHANGED <<entity_map, enum_map, issued, sql_persister, json_doc, ret, sql_init>>

NextShared ==
    \E c \in Callers :
        \/ Enter(c)
        \/ LoadCounter(c)
        \/ StoreCounter(c)
        \/ ReloadCounter(c)
        \/ Locate(c)
        \/ Again(c)

SpecShared == InitShared /\ [][NextShared]_vars

(***************************************************************************)
(* init_sql_persist (SpecInit, SpecInitFair): the calls of the embedding   *)
(* application with a type enum and a deps_func, and the calls the         *)
(* function makes of itself for the dependencies, one activation a step.   *)
(***************************************************************************)
(* the members of a type enum and the unit name it is initiated with *)
EnumMembers(e) ==
    CASE e = "UserTypes" -> UserTypes
      [] e = "MetaTypes" -> MetaTypes
      [] e = "EntityTypes" -> EntityTypes

EnumUnit(e) ==
    CASE e = "UserTypes" -> UNIT_USER
      [] e = "MetaTypes" -> UNIT_USER_META
      [] e = "EntityTypes" -> UNIT_ENTITY

(* what the deps_func of each enum returns: any of the enums, itself       *)
(* included, in the order of EnumOrder                                     *)
EnumOrder == <<"UserTypes", "MetaTypes", "EntityTypes">>

DepLists == {SelectSeq(EnumOrder, LAMBDA e : e \in s) : s \in SUBSET InitEnums}

DepGraphs == [InitEnums -> DepLists]

(* variant of Initiated that finds no enum initiated *)
Initiated_never(types_initiated, e) == FALSE

(* meta_type_enums in _types_initiated *)
Initiated(types_initiated, e) == e \in types_initiated

(* generate_schema goes on to __generate_base_schema, which calls          *)
(* generate_schema for EntityTypes                                         *)
BaseSchemaRuns(S, unit_name, unit_meta_enums) ==
    Let(generate_schema_tables(_create_connection(S), unit_name, unit_meta_enums), LAMBDA r :
        r.err = "" /\ "EntityTypes.unit" \notin r.S.sql_persister.persisted_types)

(* a call of init_sql_persist is under way *)
Running == sql_init.pending /= <<>>

(* the application calls init_sql_persist(unit_name, persist_class,        *)
(* meta_type_enums, deps_func)                                             *)
InitSqlPersist ==
    \E e \in InitEnums : \E deps \in DepGraphs :
        /\ ~Running
        /\ sql_init' = [sql_init EXCEPT !.pending = <<e>>, !.deps = deps]
        /\ ret' = Call("init_sql_persist", PyStr(e), <<PyStr(EnumUnit(e))>>)
        /\ UNCHANGED <<entity_map, enum_map, issued, sql_persister, json_doc, callers>>

(* the body of one activation of init_sql_persist: the next activations    *)
(* are those for the dependencies, before what the callers have left; an   *)
(* exception ends the callers too                                          *)
InitActivation ==
    /\ Running
    /\ \E e \in {Head(sql_init.pending)} :
         IF Initiated(sql_init._types_initiated, e)
         THEN /\ sql_init' = [sql_init EXCEPT
                                !.pending = Tail(@),
                                !.deps = IF Tail(sql_init.pending) = <<>>
                                         THEN NoSqlInit.deps ELSE @]
              /\ UNCHANGED <<entity_map, enum_map, issued, sql_persister, json_doc, ret,
                             callers>>
         ELSE \E fresh \in {sql_init._sql_persister = 0} :
              \E S \in {IF fresh THEN [Cur EXCEPT !.sql_persister = NoPersister] ELSE Cur} :
              \E r \in {generate_schema(S, EnumUnit(e), EnumMembers(e))} :
              \E base \in {BaseSchemaRuns(S, EnumUnit(e), EnumMembers(e))} :
              \E pending \in {IF r.err /= "" THEN <<>>
                              ELSE sql_init.deps[e] \o Tail(sql_init.pending)} :
                /\ sql_init' =
                       [_types_initiated |-> sql_init._types_initiated \cup {e},
                        _sql_persister |-> IF fresh THEN sql_init.created + 1
                                           ELSE sql_init._sql_persister,
                        created |-> IF fresh THEN sql_init.created + 1
                                    ELSE sql_init.created,
                        pending |-> pending,
                        deps |-> IF pending = <<>> THEN NoSqlInit.deps ELSE sql_init.deps,
                        called |-> [sql_init.called EXCEPT ![e] = @ + 1],
                        generated |->
                            [x \in InitEnums |->
                                sql_init.generated[x]
                                + (IF x = e THEN 1 ELSE 0)
                                + (IF x = "EntityTypes" /\ base THEN 1 ELSE 0)]]
                /\ entity_map' = [g \in DOMAIN r.S.entity_map |-> r.S.entity_map[g]]
                /\ enum_map' = r.S.enum_map
                /\ issued' = r.S.issued
                /\ sql_persister' = r.S.sql_persister
                /\ ret' = [Call("init_sql_persist", PyStr(e), <<PyStr(EnumUnit(e))>>)
                              EXCEPT !.rv = r.rv, !.err = r.err, !.msgs = r.S.msgs,
                                     !.sql = r.S.sql, !.res = r.S.res]
                /\ UNCHANGED <<json_doc, callers>>

NextInit == InitSqlPersist \/ InitActivation

SpecInit == InitPopulated /\ [][NextInit]_vars

(* a call that has begun goes on: the interpreter runs the next statement *)
SpecInitFair == SpecInit /\ WF_vars(InitActivation)


(***************************************************************************)
(* Properties of entity creation (Spec).                                   *)
(***************************************************************************)
Last(s) == s[Len(s)]

(* the last call was a Store.access that located or created an entity from *)
(* a unit name, an id or None, and a meta-type member                      *)
CreationReturned ==
    /\ ret.op = "GET" /\ ret.err = ""
    /\ Len(ret.path) = 3 /\ ret.path[3].t = "type"

(* every entry is filed under the GlobalId of the triple of its entity, and *)
(* the entity a creation returns has the triple that was asked for          *)
C1_Filed ==
    /\ \A g \in DOMAIN entity_map : global_id(Cur, entity_map[g].e) = g
    /\ CreationReturned =>
          /\ ret.rv.t = "entity" /\ ret.rv.v \in DOMAIN entity_map
          /\ enum_map.unit_names[entity_map[ret.rv.v].e.unit] = ret.path[1].v
          /\ enum_map.type_enums[entity_map[ret.rv.v].e.meta_type] = ret.path[3].v
          /\ ret.path[2].t = "int" => entity_map[ret.rv.v].e.entity_id = ret.path[2].v
          /\ ret.path[2].t = "none" =>
                entity_map[ret.rv.v].e.entity_id = Last(issued[ret.path[1].v])

(* a step keeps every entry: its entity, the base fields it was filed with, *)
(* and, for an instance of a user type, its whole attribute map             *)
C1_Kept ==
    \A g \in DOMAIN entity_map :
        /\ g \in DOMAIN entity_map'
        /\ entity_map'[g].e = entity_map[g].e
        /\ \A i \in 1 .. 3 :
              entity_map'[g].m[_get_base_fields[i]] = entity_map[g].m[_get_base_fields[i]]
        /\ enum_map.type_enums[entity_map[g].e.meta_type] \in Range(UserTypes)
              => entity_map'[g] = entity_map[g]

(* C1: GlobalId uniqueness. After any sequence of create_unit, type       *)
(* registration and entity creations through Store.access, every entity   *)
(* is stored under the GlobalId of its own (unit, entity_id, meta_type),   *)
(* the entity returned for a triple has exactly that triple (so two        *)
(* creations with different triples are different entities under different *)
(* keys), and no step overwrites an entry that is already stored.          *)
C1_GlobalIdUnique == [](C1_Filed) /\ [][C1_Kept]_vars

(* ids were allocated and given explicitly, for two meta-types of one unit, *)
(* and the same id is in use under both meta-types                          *)
C1_Witness ==
    /\ CreationReturned /\ ret.path[2] = PyNone
    /\ {"u1:8:A", "u1:8:B", "u1:9:A"} \subseteq DOMAIN entity_map

StrictlyIncreasing(s) == \A i, j \in DOMAIN s : i < j => s[i] < s[j]

(* C2: id monotonicity. The ids a unit's counter has issued form a strictly *)
(* increasing sequence (pairwise distinct, none issued twice), whichever    *)
(* meta-type each was issued for, and a Store.access that omits the id      *)
(* returns the entity whose id is the one issued last.                      *)
C2_IdMonotonic ==
    /\ \A u \in DOMAIN issued : StrictlyIncreasing(issued[u])
    /\ (CreationReturned /\ ret.path[2] = PyNone) =>
          entity_map[ret.rv.v].e.entity_id = Last(issued[ret.path[1].v])

(* two ids were issued under one unit, to entities of different meta-types *)
C2_Witness ==
    /\ CreationReturned /\ ret.path[2] = PyNone
    /\ UNIT_USER \in DOMAIN issued /\ Len(issued[UNIT_USER]) = 2
    /\ \E m1, m2 \in Range(UserTypes) :
          /\ m1 /= m2
          /\ _ref(Cur, PyStr(UNIT_USER), issued[UNIT_USER][1], TypeV(m1))
                 \in DOMAIN entity_map
          /\ _ref(Cur, PyStr(UNIT_USER), issued[UNIT_USER][2], TypeV(m2))
                 \in DOMAIN entity_map


(***************************************************************************)
(* Properties of field access (SpecSingle, SpecMulti).                     *)
(***************************************************************************)
(* the last call was entity.access(op, value, field) *)
FieldOp(op) ==
    /\ ret.op = op /\ Len(ret.path) = 2 /\ ret.path[2].t = "field"

(* what the addressed field holds after the call *)
Stored == DictGet(entity_map[ret.path[1].v].m, enum_map.gname[ret.path[2].v])

(* the form in which the value of the call is kept in a field *)
StoredForm(value) == IF value.t = "entity" THEN PyStr(value.v) ELSE value

(* the call left the field and both places of the committed flag alone and *)
(* sent no message                                                         *)
Untouched ==
    /\ Stored = ret.pre.raw
    /\ entity_map[ret.path[1].v].e.committed = ret.pre.committed
    /\ entity_map[ret.path[1].v].m[_get_base_fields[4]] = ret.pre.flag
    /\ ret.msgs = <<>>

(* the call was a SET on a SINGLE or MAP field of the value the field held *)
SetOfHeldValue ==
    /\ FieldOp("SET") /\ ret.err = ""
    /\ FieldDef[ret.path[2].v].valuetype \in {"SINGLE", "MAP"}
    /\ ret.pre.has /\ ret.pre.got = ret.value

(* C3: a SET on a SINGLE or MAP field, an entity reference included, with   *)
(* the value the field already holds changes neither the stored value nor  *)
(* the committed state and sends no change notification                    *)
C3_IdempotentSet == SetOfHeldValue => Untouched

(* the call was an ADD to a SET field of a value that was a member *)
AddOfMember ==
    /\ FieldOp("ADD") /\ ret.err = ""
    /\ FieldDef[ret.path[2].v].valuetype = "SET"
    /\ ret.pre.has /\ ret.pre.raw.t = "set"
    /\ StoredForm(ret.value) \in DOMAIN ret.pre.raw.v

(* the same entity was SET again on an entity-reference field *)
C3_Witness ==
    /\ SetOfHeldValue
    /\ ret.value.t = "entity" /\ FieldDef[ret.path[2].v].datatype = "ENTITY"

(* C4: an ADD to a SET field of a scalar or an entity reference that is     *)
(* already a member raises no dirty flag and sends no change notification  *)
C4_AddExistingSilent == AddOfMember => Untouched

(* an entity that was a member was added again to an entity-reference SET *)
C4_Witness ==
    /\ AddOfMember
    /\ ret.value.t = "entity" /\ FieldDef[ret.path[2].v].datatype = "ENTITY"
    /\ Cardinality(DOMAIN ret.pre.raw.v) = 1

(* C5: a SET field holds every value added to it exactly once: an ADD puts *)
(* its value in, keeps the members there were, and no member is held twice *)
C5_SetDeduplicates ==
    /\ \A g \in DOMAIN entity_map : \A k \in DOMAIN entity_map[g].m :
          entity_map[g].m[k].t = "set" =>
              \A x \in DOMAIN entity_map[g].m[k].v : entity_map[g].m[k].v[x] = 1
    /\ (FieldOp("ADD") /\ ret.err = "" /\ FieldDef[ret.path[2].v].valuetype = "SET") =>
          /\ Stored.t = "set"
          /\ StoredForm(ret.value) \in DOMAIN Stored.v
          /\ ret.pre.has => DOMAIN ret.pre.raw.v \subseteq DOMAIN Stored.v
          /\ DOMAIN Stored.v \subseteq
                 {StoredForm(ret.value)} \cup (IF ret.pre.has THEN DOMAIN ret.pre.raw.v ELSE {})

(* a value was added again to a SET field that holds two values *)
C5_Witness ==
    /\ AddOfMember
    /\ ret.value.t = "entity"
    /\ Cardinality(DOMAIN Stored.v) = 2

(* C6: a CHANGE with d on a field that holds v stores v + d and returns it, *)
(* and marks the entity uncommitted and reports the change, also for d = 0 *)
C6_ChangeAdds ==
    (FieldOp("CHANGE") /\ ret.err = "") =>
        /\ ret.pre.has /\ ret.pre.raw.t = "int"
        /\ ret.rv = PyInt(ret.pre.raw.v + ret.value.v)
        /\ Stored = ret.rv
        /\ ~entity_map[ret.path[1].v].e.committed
        /\ entity_map[ret.path[1].v].m[_get_base_fields[4]] = PyBool(FALSE)
        /\ Len(ret.msgs) = 1
        /\ ret.msgs[1].op = "CHANGE"
        /\ ret.msgs[1].entities = <<ret.path[1].v>>

(* a CHANGE by zero was made on a field that held a number, and reported *)
C6_Witness ==
    /\ FieldOp("CHANGE") /\ ret.err = ""
    /\ ret.value.v = 0 /\ ret.pre.raw.t = "int" /\ Len(ret.msgs) = 1


(***************************************************************************)
(* Properties of persistence (SpecSql).                                    *)
(***************************************************************************)
(* the committed-states as the attribute committed of an entity shows them *)
IsSaved(c) == PyEq(c, PyBool(TRUE)) \/ PyEq(c, CommittedV("SAVED"))
IsDeleted(c) == PyEq(c, CommittedV("DELETED"))
IsDirty(c) == PyEq(c, CommittedV("UPDATED"))
IsUncommitted(c) == ~IsSaved(c) /\ ~IsDeleted(c) /\ ~IsDirty(c)

CommittedNow(g) == PyBool(entity_map[g].e.committed)

StatementErrors == {"ProgrammingError", "IntegrityError"}

(* the statements of kind k that name the entity g *)
StatementsFor(g, kinds) ==
    {i \in DOMAIN ret.sql :
        /\ ret.sql[i].kind \in kinds
        /\ "_global_id" \in DOMAIN ret.sql[i].values
        /\ ret.sql[i].values["_global_id"] = PyStr(g)}

(* the last call was an insert_entity or update_entity all of whose        *)
(* statements were executed                                                *)
WriteDone ==
    /\ ret.op \in {"insert_entity", "update_entity"}
    /\ ret.sql /= <<>> /\ ret.err \notin StatementErrors

(* C7: an entity starts uncommitted, a SET/ADD/CHANGE that changes a value  *)
(* of a saved entity makes it dirty, an insert or update that succeeds      *)
(* makes it saved, and nothing else changes the committed-state             *)
C7_CommittedTransitions ==
    /\ WriteDone => IsSaved(CommittedNow(ret.value.v))
    /\ (FieldOp("ADD") /\ ret.msgs /= <<>> /\ IsSaved(PyBool(ret.pre.committed)))
           => IsDirty(CommittedNow(ret.path[1].v))
    /\ (FieldOp("ADD") /\ ret.msgs = <<>>)
           => CommittedNow(ret.path[1].v) = PyBool(ret.pre.committed)
    /\ ret.op \in {"generate_schema", "load_entities", "persist_entities"}
           => \A g \in {EntA, EntB} : ~IsSaved(CommittedNow(g))

(* the rows of an entity were inserted, and the entity is not saved *)
C7_Witness ==
    /\ ret.op = "insert_entity" /\ ret.value = Ent(EntA)
    /\ Len(ret.sql) = 4 /\ ret.err = "AttributeError"
    /\ \A i \in DOMAIN ret.sql :
          \E r \in sql_persister.rows : r.table = ret.sql[i].table /\ r.cols = ret.sql[i].values
    /\ ~IsSaved(CommittedNow(EntA))

(* C8: persist_entities issues an insert for every given entity that is     *)
(* uncommitted, an update for every one that is dirty, and no statement for *)
(* one that is deleted or saved; the entities whose statements succeed are  *)
(* saved afterwards                                                         *)
C8_PersistDispatch ==
    (ret.op = "persist_entities" /\ UserTypes[1] \in sql_persister.persisted_types) =>
        \A g \in DOMAIN ret.pre :
            /\ IsUncommitted(ret.pre[g]) => StatementsFor(g, {"INSERT"}) /= {}
            /\ IsDirty(ret.pre[g]) => StatementsFor(g, {"UPDATE"}) /= {}
            /\ (IsSaved(ret.pre[g]) \/ IsDeleted(ret.pre[g]))
                   => StatementsFor(g, {"INSERT", "UPDATE", "DELETE"}) = {}
            /\ (StatementsFor(g, {"INSERT", "UPDATE"}) /= {} /\ ret.err \notin StatementErrors)
                   => IsSaved(CommittedNow(g))

(* persist_entities was given two entities that were never written, after *)
(* generate_schema, and executed no statement                             *)
C8_Witness ==
    /\ ret.op = "persist_entities" /\ Len(ret.value.v) = 2
    /\ UserTypes[1] \in sql_persister.persisted_types
    /\ sql_persister.rows = {}
    /\ \A g \in DOMAIN ret.pre : IsUncommitted(ret.pre[g])
    /\ ret.sql = <<>> /\ ret.err = ""

(* the values the rows of a field table hold for an entity, by _value_cnt *)
RowValues(tname, g) ==
    LET rs == {r \in sql_persister.rows : r.table = tname /\ r.cols["_global_id"] = PyStr(g)}
    IN  [i \in 1 .. Cardinality(rs) |->
            (CHOOSE r \in rs : r.cols["_value_cnt"] = PyInt(i - 1)).cols[
                CHOOSE c \in DOMAIN (CHOOSE r \in rs : TRUE).cols :
                    c \notin {"_global_id", "_value_cnt"}]]

(* the entity of type A was inserted with values in its LIST and its SET   *)
(* field, and the last call loaded the type                                *)
LoadedAfterInsert ==
    /\ ret.op = "load_entities" /\ ret.value = TypeV("UserTypes.A")
    /\ \E r \in sql_persister.rows : r.table = "u1_A" /\ r.cols["_global_id"] = PyStr(EntA)
    /\ Len(RowValues("u1_A_items", EntA)) >= 2
    /\ Len(RowValues("u1_A_tags", EntA)) >= 2

(* C10: after an insert and a load_entities, GET on the LIST field gives    *)
(* the inserted elements in their order and GET on the SET field gives the  *)
(* inserted members, in whatever order the rows come back                   *)
C10_RelationalRoundTrip ==
    LoadedAfterInsert =>
        /\ ret.err = ""
        /\ Ent(EntA) \in Range(ret.rv.v)
        /\ DictGet(entity_map[EntA].m, enum_map.gname["AFields.items"])
               = PyList(RowValues("u1_A_items", EntA))
        /\ DOMAIN DictGet(entity_map[EntA].m, enum_map.gname["AFields.tags"]).v
               = Range(RowValues("u1_A_tags", EntA))

(* the load of the inserted entity ended in an exception *)
C10_Witness ==
    /\ LoadedAfterInsert
    /\ ret.err = "AttributeError"


(***************************************************************************)
(* Properties of serialization (SpecJson).                                 *)
(***************************************************************************)
(* the last call was a from_json that returned *)
FromJsonReturned == ret.op = "from_json" /\ ret.err = ""

(* C9: Entity.from_json(e.to_json()) gives the entity of the same GlobalId, *)
(* and GET on each field the entity had (SINGLE, SET of distinct values,    *)
(* LIST with duplicates) gives the value it had at to_json: the same        *)
(* members, the same order and multiplicity                                 *)
C9_JsonRoundTrip ==
    FromJsonReturned =>
        /\ ret.rv = Ent(json_doc.of)
        /\ \A f \in DOMAIN json_doc.orig :
              json_doc.orig[f] /= PyNone =>
                  _access_data_get_value(Cur, Ent(json_doc.of), FieldV(f), PyNone).rv
                      = json_doc.orig[f]

(* a from_json brought back a number, a set of two values and the list     *)
(* <<1, 2, 1>> to an entity that had changed since the to_json             *)
C9_Witness ==
    /\ FromJsonReturned
    /\ json_doc.orig["AFields.num"].t = "int"
    /\ json_doc.orig["AFields.tags"].t = "set"
    /\ Cardinality(DOMAIN json_doc.orig["AFields.tags"].v) = 2
    /\ json_doc.orig["AFields.items"] = PyList(<<PyInt(1), PyInt(2), PyInt(1)>>)
    /\ ~ret.pre.same
    /\ FieldValues(Cur, json_doc.of) = json_doc.orig


(***************************************************************************)
(* Properties of update_entity (SpecUpdate).                               *)
(***************************************************************************)
(* the rows of a field table of EntA, as pairs of _value_cnt and value *)
AuxRows(rows, field) ==
    {<<r.cols["_value_cnt"], r.cols["_" \o FieldDef[field].name \o "_value"]>> :
        r \in {x \in rows : x.table = "u1_A_" \o FieldDef[field].name}}

(* the last call was an update_entity of EntA all of whose statements were *)
(* executed                                                                *)
UpdateDone ==
    /\ ret.op = "update_entity" /\ ret.value = Ent(EntA)
    /\ ret.sql /= <<>> /\ ret.err \notin StatementErrors

(* C11: after the statements of update_entity, the table of each SET/LIST  *)
(* field holds for the entity one row per element of the field's current   *)
(* collection, numbered in order, and no row of an earlier collection      *)
C11_UpdateReplacesAll ==
    UpdateDone =>
        /\ LET items == DictGet(entity_map[EntA].m, enum_map.gname["AFields.items"])
           IN  AuxRows(RowsOf(Cur, EntA), "AFields.items")
                   = IF items = PyNone THEN {}
                     ELSE {<<PyInt(i - 1), items.v[i]>> : i \in DOMAIN items.v}
        /\ LET tags == DictGet(entity_map[EntA].m, enum_map.gname["AFields.tags"])
           IN  /\ {p[2] : p \in AuxRows(RowsOf(Cur, EntA), "AFields.tags")}
                      = IF tags = PyNone THEN {} ELSE DOMAIN tags.v
               /\ Cardinality(AuxRows(RowsOf(Cur, EntA), "AFields.tags"))
                      = IF tags = PyNone THEN 0 ELSE Cardinality(DOMAIN tags.v)

(* an update found two rows of the LIST field and two of the SET field and *)
(* left the one row of the list <<2>> and no row of the emptied set        *)
C11_Witness ==
    /\ UpdateDone
    /\ Cardinality(AuxRows(ret.pre, "AFields.items")) = 2
    /\ Cardinality(AuxRows(ret.pre, "AFields.tags")) = 2
    /\ AuxRows(RowsOf(Cur, EntA), "AFields.items") = {<<PyInt(0), PyInt(2)>>}
    /\ AuxRows(RowsOf(Cur, EntA), "AFields.tags") = {}
    /\ DictGet(entity_map[EntA].m, enum_map.gname["AFields.items"]) = PyList(<<PyInt(2)>>)


(***************************************************************************)
(* Properties of connections and cursors (SpecSql).                        *)
(***************************************************************************)
(* how many connections or cursors a log leaves acquired and not released *)
Held(log, kind) ==
    Cardinality({i \in DOMAIN log : log[i] = <<"acquire", kind>>})
        - Cardinality({i \in DOMAIN log : log[i] = <<"release", kind>>})

(* everything the log acquires is released, and nothing is released that   *)
(* is not held                                                             *)
ReleasedOnce(log) ==
    \A kind \in {"connection", "cursor"} :
        /\ Held(log, kind) = 0
        /\ \A n \in DOMAIN log : Held(SubSeq(log, 1, n), kind) >= 0

PersistOps ==
    {"load_entities", "insert_entity", "update_entity", "generate_schema", "persist_entities"}

(* C12: load_entities, insert_entity, update_entity, generate_schema and   *)
(* persist_entities release every connection and every cursor they acquire *)
(* exactly once, however they end                                          *)
C12_ResourcesReleased == ret.op \in PersistOps => ReleasedOnce(ret.res)

(* insert_entity of an entity whose type is not persisted returned False   *)
(* and left its connection open                                            *)
C12_Witness ==
    /\ ret.op = "insert_entity" /\ ret.rv = PyBool(FALSE) /\ ret.err = ""
    /\ sql_persister.persisted_types = {}
    /\ ret.res = <<(<<"acquire", "connection">>)>>


(***************************************************************************)
(* Properties of a persistence pass that meets a failing statement         *)
(* (SpecSql).                                                              *)
(***************************************************************************)
(* the table of the entity's type holds a row of the entity *)
HasRow(persister, g, tname) ==
    \E r \in persister.rows : r.table = tname /\ r.cols["_global_id"] = PyStr(g)

(* a step that is persist_entities([b, a]) for two uncommitted entities of *)
(* persisted types, taken when the row of a is in its table already and    *)
(* the row of b is not: the INSERT of a, the second entity, must fail      *)
PassFailsOnSecond ==
    /\ ret'.op = "persist_entities" /\ ret'.value = PyList(<<Ent(EntB), Ent(EntA)>>)
    /\ Range(UserTypes) \subseteq sql_persister.persisted_types
    /\ IsUncommitted(CommittedNow(EntA)) /\ IsUncommitted(CommittedNow(EntB))
    /\ HasRow(sql_persister, EntA, "u1_A") /\ ~HasRow(sql_persister, EntB, "u1_B")

(* what the claim says of such a step: the failure reaches the caller, the *)
(* failing INSERT is the last statement, the row of b stays, b is saved    *)
(* and a is not                                                            *)
PartialCommit ==
    /\ ret'.err \in StatementErrors
    /\ ret'.sql /= <<>>
    /\ Last(ret'.sql).kind = "INSERT" /\ Last(ret'.sql).table = "u1_A"
    /\ Cardinality({i \in DOMAIN ret'.sql : ret'.sql[i].table = "u1_A"}) = 1
    /\ HasRow(sql_persister', EntB, "u1_B")
    /\ IsSaved(PyBool(entity_map'[EntB].e.committed))
    /\ IsUncommitted(PyBool(entity_map'[EntA].e.committed))

(* C13: when a statement fails at the k-th entity of persist_entities, the *)
(* failure propagates, no later entity is processed, nothing is retried,   *)
(* the failing entity is not saved, and what was executed for the earlier  *)
(* entities stays: their rows are kept and they are saved                  *)
C13_PartialCommit == [][PassFailsOnSecond => PartialCommit]_vars

(* persist_entities([b, a]) returned without an error and without a        *)
(* statement, although the row of a was in its table and that of b was not *)
C13_Witness ==
    /\ ret.op = "persist_entities" /\ ret.value = PyList(<<Ent(EntB), Ent(EntA)>>)
    /\ Range(UserTypes) \subseteq sql_persister.persisted_types
    /\ HasRow(sql_persister, EntA, "u1_A") /\ ~HasRow(sql_persister, EntB, "u1_B")
    /\ IsUncommitted(CommittedNow(EntA)) /\ IsUncommitted(CommittedNow(EntB))
    /\ ret.err = "" /\ ret.sql = <<>>


(***************************************************************************)
(* Properties of change notification (SpecNotify).                         *)
(***************************************************************************)
(* C14: a SET, ADD or CHANGE call on an entity of a user unit sends one     *)
(* notification, with the operation and the GlobalId of the entity, if the  *)
(* call changed what the store holds, and none if it changed nothing, also  *)
(* when its path is an entity locator alone                                 *)
C14_NotifyIffChanged ==
    [][ret'.op \in {"SET", "ADD", "CHANGE"} =>
           IF entity_map' /= entity_map
           THEN /\ Len(ret'.msgs) = 1
                /\ ret'.msgs[1].op = ret'.op
                /\ ret'.msgs[1].entities \in {<<ret'.path[1].v>>, <<ret'.rv.v>>}
           ELSE ret'.msgs = <<>>]_vars

(* a SET whose path is the GlobalId of an entity of the store, and nothing *)
(* else, sent a notification                                               *)
C14_Witness ==
    /\ ret.op = "SET" /\ ret.path = <<PyStr(EntA)>> /\ ret.rv = Ent(EntA)
    /\ ret.msgs = <<[op |-> "SET", path |-> <<>>, entities |-> <<EntA>>]>>


(***************************************************************************)
(* Properties of the exclusion of notifications (Spec).                    *)
(***************************************************************************)
(* the units whose entities are not reported: "entity", the message unit  *)
(* and every unit whose name ends in _meta                                *)
ReservedUnit(unit_name) ==
    unit_name \in {UNIT_ENTITY, UNIT_MESSAGES} \/ endswith(unit_name, "_meta")

(* no notification of the last call names an entity of a reserved unit *)
NoneReserved ==
    \A i \in DOMAIN ret.msgs : \A g \in Range(ret.msgs[i].entities) :
        ~ReservedUnit(GidParse[g][1])

(* the last call created an entity under an id it took from the counter of *)
(* the unit: a CHANGE on the unit entity                                   *)
AutoCreated ==
    /\ CreationReturned /\ ret.path[2] = PyNone
    /\ entity_map[ret.rv.v].e.entity_id = Last(issued[ret.path[1].v])

(* C15 as stated: no notification names an entity of a reserved unit, and  *)
(* the counter increment of auto-id allocation and every schema            *)
(* registration write are silent                                           *)
C15_RegistrationSilent ==
    /\ NoneReserved
    /\ AutoCreated => ret.msgs = <<>>
    /\ ret.op = "load_types_from_enum" => ret.msgs = <<>>

(* the last call registered the types of MetaTypes, declared under a unit  *)
(* whose name ends in _meta, and added their entities to the store         *)
MetaRegistered ==
    /\ ret.op = "load_types_from_enum" /\ ret.value = TypeV(MetaTypes[1])
    /\ ret.err = ""
    /\ DOMAIN entity_map /= ret.pre

(* C15, amended: no notification names an entity of a reserved unit; the   *)
(* counter increment of auto-id allocation, create_unit and the            *)
(* registration of types declared under a unit named *_meta are silent,    *)
(* and the notifications of any other registration name entities of the    *)
(* unit the types are declared under, never the unit entity                *)
C15_ReservedSilent ==
    /\ NoneReserved
    /\ AutoCreated => ret.msgs = <<>>
    /\ ret.op = "create_unit" => ret.msgs = <<>>
    /\ MetaRegistered => ret.msgs = <<>>
    /\ ret.op = "load_types_from_enum" =>
           \A i \in DOMAIN ret.msgs : \A g \in Range(ret.msgs[i].entities) :
               GidParse[g][1] \in {TypeDef[m].unit_name : m \in Range(UserTypes)}

(* the types of MetaTypes were registered with the message hook installed: *)
(* the unit u1_meta, the type entity and the field entity were written and *)
(* nothing was sent                                                        *)
C15_Witness ==
    /\ MetaRegistered /\ ret.msgs = <<>>
    /\ {enum_map.units[UNIT_USER_META], enum_map.types[MetaTypes[1]],
        _ref(Empty, PyStr(UNIT_USER_META), FieldDef[MFields[1]].id_value,
             TypeV("EntityTypes.meta_field"))} \subseteq DOMAIN entity_map \ ret.pre

(***************************************************************************)
(* Properties of the bootstrap (Spec).                                     *)
(***************************************************************************)
(* the store resolves the GlobalId g to an entity whose unit and meta-type *)
(* are entities of the store, in the object and in its stored base fields  *)
Resolves(g) ==
    /\ g \in DOMAIN entity_map
    /\ {entity_map[g].e.unit, entity_map[g].e.meta_type} \subseteq DOMAIN entity_map
    /\ {entity_map[g].m[_get_base_fields[1]].v,
        entity_map[g].m[_get_base_fields[2]].v} \subseteq DOMAIN entity_map

(* the meta-type of the entity g is the foundational meta-type entity_type *)
HasMetaType(g, entity_type) ==
    /\ entity_type \in DOMAIN enum_map.types
    /\ entity_map[g].e.meta_type = enum_map.types[entity_type]
    /\ entity_map[g].m[_get_base_fields[2]] = PyStr(enum_map.types[entity_type])

(* C16: the foundational unit, its metadata unit and the four foundational *)
(* meta-types are in the store under their names, the unit and the         *)
(* meta-type of each of them are entities of the store, both units have    *)
(* the meta-type unit and the four meta-types have the meta-type type_meta *)
C16_BootstrapSelfDescribed ==
    /\ \A unit_name \in {UNIT_ENTITY, UNIT_ENTITY_META} :
           /\ unit_name \in DOMAIN enum_map.units
           /\ Resolves(enum_map.units[unit_name])
           /\ HasMetaType(enum_map.units[unit_name], "EntityTypes.unit")
           /\ enum_map.unit_names[enum_map.units[unit_name]] = unit_name
           /\ _access_data_get_value(Cur, Ent(enum_map.units[unit_name]),
                                     FieldV("UnitMeta.name"), PyNone).rv = PyStr(unit_name)
    /\ \A entity_type \in Range(EntityTypes) :
           /\ entity_type \in DOMAIN enum_map.types
           /\ Resolves(enum_map.types[entity_type])
           /\ HasMetaType(enum_map.types[entity_type], "EntityTypes.type_meta")
           /\ enum_map.type_enums[enum_map.types[entity_type]] = entity_type
           /\ _access_data_get_value(Cur, Ent(enum_map.types[entity_type]),
                                     FieldV("TypeMeta.name"), PyNone).rv
                  = PyStr(TypeDef[entity_type].name)

(* the store right after the import of the module: no call was made, no    *)
(* client unit or type exists, and type_meta is its own meta-type          *)
C16_Witness ==
    /\ ret.op = "init"
    /\ DOMAIN enum_map.units = {UNIT_ENTITY, UNIT_ENTITY_META}
    /\ DOMAIN enum_map.types = Range(EntityTypes)
    /\ entity_map[BootType("EntityTypes.type_meta")].e.meta_type
           = BootType("EntityTypes.type_meta")

(***************************************************************************)
(* Properties of create_unit (Spec).                                       *)
(***************************************************************************)
(* the value the store holds for a field of the entity g *)
FieldOf(map, g, field) == DictGet(map[g].m, enum_map.gname[field])

(* the step is a call create_unit(unit_name) for a name that is known *)
CreateUnitAgain ==
    /\ ret'.op = "create_unit"
    /\ ret'.path[1].v \in DOMAIN enum_map.units

(* C17: create_unit is idempotent. A create_unit(name) for a name a former *)
(* call has created returns the unit entity of that call, adds no entity   *)
(* to the store, leaves the id counter of the foundational unit where it   *)
(* is and keeps the id counter and the name of the unit.                   *)
C17_CreateUnitIdempotent ==
    [][CreateUnitAgain =>
          \E unit \in {enum_map.units[ret'.path[1].v]} :
              /\ ret'.err = "" /\ ret'.rv = Ent(unit)
              /\ enum_map'.units = enum_map.units
              /\ DOMAIN entity_map' = DOMAIN entity_map
              /\ \A field \in {"UnitMeta.id_cnt", "UnitMeta.name"} :
                     /\ FieldOf(entity_map', BootUnit, field)
                            = FieldOf(entity_map, BootUnit, field)
                     /\ FieldOf(entity_map', unit, field)
                            = FieldOf(entity_map, unit, field)
              /\ issued' = issued]_vars

(* create_unit was called for the client unit after ids had been issued    *)
(* under it: its counter is above 0 after the call                         *)
C17_Witness ==
    /\ ret.op = "create_unit" /\ ret.err = ""
    /\ ret.path = <<PyStr(UNIT_USER)>>
    /\ UNIT_USER \in DOMAIN issued
    /\ ret.rv = Ent(enum_map.units[UNIT_USER])
    /\ FieldOf(entity_map, ret.rv.v, "UnitMeta.id_cnt").v
           >= Last(issued[UNIT_USER])
    /\ FieldOf(entity_map, ret.rv.v, "UnitMeta.name") = PyStr(UNIT_USER)

(***************************************************************************)
(* Properties of the registration of types (Spec).                         *)
(***************************************************************************)
(* the id counter of the unit named unit_name *)
IdCnt(map, units, unit_name) == FieldOf(map, units[unit_name], "UnitMeta.id_cnt").v

(* the ids a registration supplies under the unit named unit_name: the id  *)
(* of every registered meta-type of the unit and the ids of its fields     *)
RegisteredIds(types, unit_name) ==
    UNION {{TypeDef[m].id_value}
               \cup {FieldDef[f].id_value : f \in Range(TypeDef[m].fields_enum)} :
           m \in {t \in DOMAIN types : TypeDef[t].unit_name = unit_name}}

(* the counter of every unit is at least every id registered under it *)
HighWater ==
    \A unit_name \in DOMAIN enum_map.units :
        \A n \in RegisteredIds(enum_map.types, unit_name) :
            IdCnt(entity_map, enum_map.units, unit_name) >= n

(* a registration lowers no counter, and an id issued by a step is none of *)
(* the ids registered under the unit before the step                       *)
HighWaterKept ==
    /\ ret'.op = "load_types_from_enum" =>
           \A unit_name \in DOMAIN enum_map.units :
               IdCnt(entity_map', enum_map'.units, unit_name)
                   >= IdCnt(entity_map, enum_map.units, unit_name)
    /\ \A unit_name \in DOMAIN issued' :
           \A i \in DOMAIN issued'[unit_name] :
               i > Len(Issued(Cur, unit_name)) =>
                   issued'[unit_name][i] \notin RegisteredIds(enum_map.types, unit_name)

(* C18: registration high-water mark. After load_types_from_enum the id    *)
(* counter of the unit is at least the largest meta-type id and field id   *)
(* of the registered types, a registration never lowers a counter, and no  *)
(* id allocated afterwards under the unit is an id of the registration.    *)
C18_HighWaterMark == [](HighWater) /\ [][HighWaterKept]_vars

(* the types of UserTypes are registered and an id was then allocated      *)
(* under their unit: it is above the largest id of the registration        *)
C18_Witness ==
    /\ CreationReturned /\ ret.path[2] = PyNone /\ ret.path[1] = PyStr(UNIT_USER)
    /\ Range(UserTypes) \subseteq DOMAIN enum_map.types
    /\ \A n \in RegisteredIds(enum_map.types, UNIT_USER) : Last(issued[UNIT_USER]) > n
    /\ entity_map[ret.rv.v].e.entity_id = Last(issued[UNIT_USER])

(***************************************************************************)
(* Properties of the ancestry of the stored entities (Spec).               *)
(***************************************************************************)
(* C19: referential integrity of ancestry. For every entity of the entity  *)
(* map the unit and the meta-type it refers to, in the object and in the   *)
(* stored base fields, are GlobalIds of entities of the map, and the key   *)
(* of the entry is the GlobalId of the entity's (unit, entity_id,          *)
(* meta_type).                                                             *)
C19_AncestryResolves ==
    \A g \in DOMAIN entity_map :
        /\ Resolves(g)
        /\ entity_map[g].m[_get_base_fields[1]] = PyStr(entity_map[g].e.unit)
        /\ entity_map[g].m[_get_base_fields[2]] = PyStr(entity_map[g].e.meta_type)
        /\ entity_map[g].m[_get_base_fields[3]] = PyInt(entity_map[g].e.entity_id)
        /\ entity_map[g].e.unit \in DOMAIN enum_map.unit_names
        /\ entity_map[g].e.meta_type \in DOMAIN enum_map.type_enums
        /\ g = _global_field_name(enum_map.unit_names[entity_map[g].e.unit],
                                  ToString(entity_map[g].e.entity_id),
                                  TypeDef[enum_map.type_enums[entity_map[g].e.meta_type]].name)

(* the store holds entities of every kind: a client unit, a client type,   *)
(* a field of it, and instances created with an allocated and with a given *)
(* id, one of them under a unit other than the unit of its type            *)
C19_Witness ==
    /\ CreationReturned
    /\ {UNIT_USER, UNIT_OTHER} \subseteq DOMAIN enum_map.units
    /\ UserTypes[1] \in DOMAIN enum_map.types
    /\ \E g1, g2 \in DOMAIN entity_map :
           /\ entity_map[g1].e.unit = enum_map.units[UNIT_OTHER]
           /\ entity_map[g1].e.meta_type = enum_map.types[UserTypes[1]]
           /\ entity_map[g2].e.unit = enum_map.units[UNIT_USER]
           /\ entity_map[g2].e.entity_id \in ExplicitIds

(***************************************************************************)
(* Properties of the location of entities (SpecNotify).                    *)
(***************************************************************************)
(* the path of a call is an entity locator and nothing more *)
LocatorOnly(path) ==
    \/ Len(path) = 1 /\ path[1].t = "str"
    \/ Len(path) = 3 /\ path[2].t = "int" /\ path[3].t = "type"

(* the GlobalId a locator stands for *)
Located(path) ==
    IF Len(path) = 1 THEN path[1].v ELSE _ref(Empty, path[1], path[2].v, path[3])

(* the call of the step returned the entity g *)
Returned(g) == ret'.err = "" /\ ret'.rv = Ent(g)

(* C20: get-or-create. Store.access on a locator whose GlobalId is not in  *)
(* the store, given as unit, id and meta-type or as a GlobalId string,     *)
(* adds exactly one entity, uncommitted and under that GlobalId, and       *)
(* returns it; on a locator whose GlobalId is in the store it returns the  *)
(* stored entity and adds nothing.                                         *)
C20_GetOrCreate ==
    [][LocatorOnly(ret'.path) =>
          \E g \in {Located(ret'.path)} :
              IF g \in DOMAIN entity_map
              THEN /\ Returned(g)
                   /\ entity_map' = entity_map
              ELSE /\ Returned(g)
                   /\ DOMAIN entity_map' = DOMAIN entity_map \cup {g}
                   /\ entity_map'[g].e.committed = FALSE
                   /\ entity_map'[g].m[_get_base_fields[4]] = PyBool(FALSE)
                   /\ \A h \in DOMAIN entity_map : entity_map'[h] = entity_map[h]]_vars

(* Store.access was called with the GlobalId string of an entity that is   *)
(* not in the store, under a unit that exists: the call raised and the     *)
(* store holds no such entity                                              *)
C20_Witness ==
    /\ LocatorOnly(ret.path) /\ Len(ret.path) = 1
    /\ GidParse[ret.path[1].v][1] \in DOMAIN enum_map.units
    /\ ret.path[1].v \notin DOMAIN entity_map
    /\ ret.err = "AttributeError"

(***************************************************************************)
(* Properties of GET and DEL (SpecSingle).                                 *)
(***************************************************************************)
(* C21: GET never mutates. A GET call leaves the attribute values and the  *)
(* committed-state of every entity, the id counter of every unit and the   *)
(* set of entities of the store as they were, and sends no notification.   *)
C21_GetNeverMutates ==
    [][ret'.op = "GET" =>
          /\ entity_map' = entity_map
          /\ issued' = issued
          /\ ret'.msgs = <<>>]_vars

(* a GET of an element of the SET field that held no value returned None   *)
(* and the field now holds an empty set                                    *)
C21_Witness ==
    /\ ret.op = "GET" /\ ret.err = ""
    /\ ret.path = <<PyStr(EntA), FieldV("AFields.tags"), PyInt(0)>>
    /\ ~ret.pre.has
    /\ FieldOf(entity_map, EntA, "AFields.tags") = PySet(PySetEmpty)

(* the call was a GET, with a default, of a field that holds no value *)
GetOfAbsent ==
    /\ FieldOp("GET") /\ ret.err = ""
    /\ ~ret.pre.has

(* C22: GET default. A GET on a field that holds no value returns the      *)
(* default the caller passed as the value argument of the call.            *)
C22_GetDefault == GetOfAbsent => ret.rv = ret.value

(* a GET with a default on the number field that holds no value returned   *)
(* None                                                                    *)
C22_Witness ==
    /\ GetOfAbsent
    /\ ret.path[2] = FieldV("AFields.num")
    /\ ret.value = DefaultValue
    /\ ret.rv = PyNone

(* the last call was entity.access(op, value, field, key) *)
ElementOp(op) ==
    /\ ret.op = op /\ Len(ret.path) = 3 /\ ret.path[2].t = "field"

(* C26: DEL removes the value at the addressed path. After a DEL on a      *)
(* scalar field the field holds no value, and after a DEL on an element of *)
(* a container the element is no longer in the container.                  *)
C26_DelRemoves ==
    /\ (FieldOp("DEL") /\ ret.err = "") =>
           enum_map.gname[ret.path[2].v] \notin DOMAIN entity_map[ret.path[1].v].m
    /\ (ElementOp("DEL") /\ ret.err = "" /\ ret.pre.has /\ ret.pre.raw.t = "dict") =>
           ret.path[3].v \notin DOMAIN FieldOf(entity_map, ret.path[1].v, ret.path[2].v).v

(* a DEL on the number field that held a number returned, and the field    *)
(* holds the number                                                        *)
C26_Witness ==
    /\ FieldOp("DEL") /\ ret.err = ""
    /\ ret.path = <<PyStr(EntA), FieldV("AFields.num")>>
    /\ ret.pre.has /\ ret.pre.raw.t = "int"
    /\ FieldOf(entity_map, EntA, "AFields.num") = ret.pre.raw
    /\ ret.msgs = <<>>

(***************************************************************************)
(* Properties of entity references (SpecRefs).                             *)
(***************************************************************************)
(* v is the GlobalId string of an entity of the store *)
IsReference(v) == v.t = "str" /\ v.v \in DOMAIN entity_map

(* v is the form in which a field of the given valuetype holds references: *)
(* a GlobalId string, a set of them or a list of them                      *)
HoldsReferences(v, valuetype) ==
    IF valuetype = "SET" THEN v.t = "set" /\ \A x \in DOMAIN v.v : IsReference(x)
    ELSE IF valuetype = "LIST" THEN v.t = "list" /\ \A i \in DOMAIN v.v : IsReference(v.v[i])
    ELSE IsReference(v)

(* the reference to entity g is in v: v itself, a member, the last element *)
RefersTo(v, valuetype, g) ==
    IF valuetype = "SET" THEN PyStr(g) \in DOMAIN v.v
    ELSE IF valuetype = "LIST" THEN Len(v.v) > 0 /\ v.v[Len(v.v)] = PyStr(g)
    ELSE v = PyStr(g)

(* the serialized form of a stored value: the members of a set in a list *)
Serializes(json, v) ==
    IF v.t = "set"
    THEN json.t = "list" /\ Range(json.v) = DOMAIN v.v /\ Len(json.v) = Cardinality(DOMAIN v.v)
    ELSE json = v

ElementsOf(v) ==
    IF v.t = "list" THEN Range(v.v) ELSE IF v.t = "set" THEN DOMAIN v.v ELSE {}

(* the last call was entity.access(op, value, field) on a SET or LIST field *)
MultiOp(op) ==
    /\ FieldOp(op) /\ ret.err = ""
    /\ FieldDef[ret.path[2].v].valuetype \in {"SET", "LIST"}

(* the field holds a collection of its own kind *)
OwnKind(v) == v.t = (IF FieldDef[ret.path[2].v].valuetype = "SET" THEN "set" ELSE "list")

(* the field holds exactly the elements of the value of the call, a list in *)
(* the order of the call                                                    *)
Replaced ==
    /\ OwnKind(Stored)
    /\ ElementsOf(Stored) = ElementsOf(ret.value)
    /\ (Stored.t = "list" /\ ret.value.t = "list") => Stored.v = ret.value.v
    /\ Stored.t = "list" => Len(Stored.v) = Cardinality(ElementsOf(ret.value))
                               \/ ret.value.t = "list"

(* the value of the call was appended to the list, or inserted into the set, *)
(* that the field held, and what it held is kept                             *)
Inserted ==
    /\ OwnKind(Stored)
    /\ Stored.t = "list"
           => Stored.v = Append(IF ret.pre.has THEN ret.pre.raw.v ELSE <<>>, ret.value)
    /\ Stored.t = "set"
           => DOMAIN Stored.v = {ret.value} \cup (IF ret.pre.has THEN DOMAIN ret.pre.raw.v ELSE {})

(* C24: a SET on a SET or LIST field with a list or a set replaces the     *)
(* stored collection by exactly the supplied elements; with a bare value   *)
(* it appends to the list, or inserts into the set, and keeps what was     *)
(* there                                                                   *)
C24_SetOnMulti ==
    MultiOp("SET") => IF ret.value.t \in {"list", "set"} THEN Replaced ELSE Inserted

(* a list was SET on the SET field that held a member the list has not *)
C24_Witness ==
    /\ MultiOp("SET")
    /\ FieldDef[ret.path[2].v].valuetype = "SET" /\ ret.value.t = "list"
    /\ ret.pre.has /\ ~(DOMAIN ret.pre.raw.v \subseteq Range(ret.value.v))
    /\ DOMAIN ret.pre.raw.v \subseteq DOMAIN Stored.v

(* the last call was an ADD of a list onto a SET field *)
BulkAdd ==
    /\ MultiOp("ADD")
    /\ FieldDef[ret.path[2].v].valuetype = "SET" /\ ret.value.t = "list"

(* the list of the call held a value the field did not hold *)
NewMember ==
    \E x \in Range(ret.value.v) : ~(ret.pre.has /\ x \in DOMAIN ret.pre.raw.v)

(* the call marked the entity: it reset the committed flag and the change  *)
(* was reported                                                            *)
Marked ==
    /\ ~entity_map[ret.path[1].v].e.committed
    /\ entity_map[ret.path[1].v].m[_get_base_fields[4]] = PyBool(FALSE)
    /\ Len(ret.msgs) = 1

(* C25: an ADD of a list onto a SET field marks the entity dirty only if   *)
(* an element of the list was not a member; an ADD that brings no new      *)
(* member, whether the field was set before or not, leaves the committed   *)
(* state and the field as they were and reports no change                  *)
C25_BulkAddDirtiesOnNew ==
    BulkAdd => /\ ret.msgs /= <<>> => NewMember
               /\ ~NewMember => /\ entity_map[ret.path[1].v].e.committed = ret.pre.committed
                                /\ entity_map[ret.path[1].v].m[_get_base_fields[4]] = ret.pre.flag
                                /\ ret.msgs = <<>>

(* an empty list was added to the SET field that had never been set, and   *)
(* the entity was marked                                                   *)
C25_Witness ==
    /\ BulkAdd /\ ret.value.v = <<>> /\ ~ret.pre.has
    /\ Marked /\ Stored = PySet(PySetEmpty)

(***************************************************************************)
(* Properties of the whole-store VISIT (SpecVisit).                        *)
(***************************************************************************)
(* the entities a path of a unit name, or of a unit name and a meta-type,  *)
(* selects                                                                 *)
Selected(path) ==
    {g \in DOMAIN entity_map :
        /\ enum_map.unit_names[entity_map[g].e.unit] = path[1].v
        /\ Len(path) = 2 => enum_map.type_enums[entity_map[g].e.meta_type] = path[2].v}

(* the last call had a path that names no entity: a unit, or unit and type *)
WholeStore(op) ==
    /\ ret.op = op
    /\ Len(ret.path) \in 1 .. 2 /\ ret.path[1].v \in UnitNames
    /\ Len(ret.path) = 2 => ret.path[2].t = "type"

(* C27: Store.access(VISIT) with a unit name returns exactly the entities  *)
(* of that unit, with a unit name and a meta-type exactly the entities of  *)
(* that unit and type, and Store.to_json over the same path serializes     *)
(* exactly those entities                                                  *)
C27_WholeStoreVisit ==
    /\ WholeStore("VISIT")
           => /\ ret.err = "" /\ ret.rv.t = "list"
              /\ Range(ret.rv.v) = {Ent(g) : g \in Selected(ret.path)}
              /\ Len(ret.rv.v) = Cardinality(Selected(ret.path))
    /\ WholeStore("Store.to_json")
           => /\ ret.err = "" /\ ret.rv.t = "list"
              /\ Len(ret.rv.v) = Cardinality(Selected(ret.path))
              /\ \A g \in Selected(ret.path) :
                     \E i \in DOMAIN ret.rv.v : \E order \in SetOrders(Cur, {g}) :
                         ret.rv.v[i] = to_json(Cur, g, order).rv

(* Store.to_json was called for the unit of the two entities and failed *)
C27_Witness ==
    /\ WholeStore("Store.to_json")
    /\ Cardinality(Selected(ret.path)) >= 2
    /\ ret.err = "TypeError"

(***************************************************************************)
(* Properties of the rows of the field tables (SpecUpdate).                *)
(***************************************************************************)
(* the last call was an insert_entity or update_entity of EntA all of      *)
(* whose statements were executed                                          *)
WriteDoneA == WriteDone /\ ret.value = Ent(EntA)

(* the rows of the field's table carry for EntA the indices 0 .. n-1 once  *)
(* each, n the size of the collection the field holds, and for a list the  *)
(* row of index i holds the i-th element                                   *)
Numbered(field) ==
    LET held == DictGet(entity_map[EntA].m, enum_map.gname[field])
        n == IF held = PyNone THEN 0
             ELSE IF held.t = "list" THEN Len(held.v) ELSE Cardinality(DOMAIN held.v)
        rows == AuxRows(RowsOf(Cur, EntA), field)
    IN  /\ {p[1] : p \in rows} = {PyInt(i) : i \in 0 .. n - 1}
        /\ Cardinality(rows) = n
        /\ (held /= PyNone /\ held.t = "list")
               => \A i \in 1 .. n : <<PyInt(i - 1), held.v[i]>> \in rows

(* C28: after insert_entity and update_entity calls that succeed, the rows *)
(* of each field table carry for the entity the indices 0 .. n-1 exactly   *)
(* once each, n the size of the field's current collection, and for a LIST *)
(* field the row of index i holds the i-th element                         *)
C28_AuxRowsNumbered ==
    WriteDoneA => Numbered("AFields.items") /\ Numbered("AFields.tags")

(* the last call found no row of EntA in the tables of the fields *)
NoRowsBefore ==
    AuxRows(ret.pre, "AFields.items") = {} /\ AuxRows(ret.pre, "AFields.tags") = {}

(* C28, amended: after an update_entity that succeeds, and after an        *)
(* insert_entity that succeeds for an entity that had no rows in the field *)
(* tables, the rows of each field table carry for the entity the indices   *)
(* 0 .. n-1 exactly once each, n the size of the field's current           *)
(* collection, and for a LIST field the row of index i holds the i-th      *)
(* element                                                                 *)
C28_NumberedAfterWrite ==
    (WriteDoneA /\ (ret.op = "insert_entity" => NoRowsBefore))
        => Numbered("AFields.items") /\ Numbered("AFields.tags")

(* an insert_entity wrote the rows 0 and 1 of a list of two elements and   *)
(* of a set of two members for an entity that had no rows                  *)
C28_Witness ==
    /\ WriteDoneA /\ ret.op = "insert_entity" /\ ret.pre = {}
    /\ DictGet(entity_map[EntA].m, enum_map.gname["AFields.items"])
           = PyList(<<PyInt(2), PyInt(1)>>)
    /\ AuxRows(RowsOf(Cur, EntA), "AFields.items")
           = {<<PyInt(0), PyInt(2)>>, <<PyInt(1), PyInt(1)>>}
    /\ Cardinality(AuxRows(RowsOf(Cur, EntA), "AFields.tags")) = 2

(***************************************************************************)
(* Properties of the relational schema (SpecSql).                          *)
(***************************************************************************)
(* the declared types whose tables generate_schema derives *)
SchemaTypes == {t \in sql_persister.persisted_types : IsPublicName(TypeDef[t].name)}

(* the columns of the ancestry of an entity *)
AncestryColumns == {"_unit", "_meta_type", "_entity_id"}

(* C29: for a declared type __sql_tables yields one table more than the    *)
(* type has SET or LIST fields: a table named unit_type with the columns   *)
(* _global_id (the sole primary key), the three ancestry columns (not the  *)
(* committed flag) and one column per SINGLE or MAP field in declaration   *)
(* order, and for each SET or LIST field a table named unit_type_field     *)
(* with the primary key (_global_id, _value_cnt) and one value column; no  *)
(* SET or LIST field is a column of the first table                        *)
C29_SchemaDerivation ==
    \A t \in SchemaTypes :
        LET unit == sql_persister.unit_meta_unit[t]
            fields == TypeDef[t].fields_enum
            multi == SelectSeq(fields, IsMulti)
            single == SelectSeq(fields, LAMBDA f : ~IsMulti(f))
            tables == sql_tables(table_name(Cur, t), fields)
            primary == tables[1]
        IN  /\ Len(tables) = 1 + Cardinality({f \in Range(fields) : IsMulti(f)})
            /\ primary.table_name = unit \o "_" \o TypeDef[t].name
            /\ primary.primary_keys = {"_global_id"}
            /\ Len(primary.fields) = 4 + Len(single)
            /\ primary.fields[1] = "_global_id"
            /\ {primary.fields[i] : i \in 2 .. 4} = AncestryColumns
            /\ \A i \in DOMAIN single :
                   primary.fields[4 + i] = "_" \o FieldDef[single[i]].name
            /\ "_committed" \notin Range(primary.fields)
            /\ \A i \in DOMAIN multi :
                   /\ tables[1 + i].table_name
                          = unit \o "_" \o TypeDef[t].name \o "_" \o FieldDef[multi[i]].name
                   /\ tables[1 + i].primary_keys = {"_global_id", "_value_cnt"}
                   /\ Len(tables[1 + i].fields) = 3
                   /\ Range(tables[1 + i].fields) \ tables[1 + i].primary_keys
                          = {"_" \o FieldDef[multi[i]].name \o "_value"}
                   /\ "_" \o FieldDef[multi[i]].name \notin Range(primary.fields)
            /\ {tables[i].table_name : i \in DOMAIN tables} \subseteq sql_persister.tables

(* generate_schema derived the three tables of the type with a SET and a   *)
(* LIST field, and one table for each type without such a field            *)
C29_Witness ==
    /\ ret.op = "generate_schema" /\ ret.err = ""
    /\ "UserTypes.A" \in SchemaTypes
    /\ {"u1_A", "u1_A_tags", "u1_A_items"} \subseteq sql_persister.tables
    /\ Cardinality({i \in DOMAIN ret.sql : ret.sql[i].kind = "CREATE"
                        /\ ret.sql[i].table \in {"u1_A", "u1_A_tags", "u1_A_items"}}) = 3

(***************************************************************************)
(* Properties of load_entities (SpecSql).                                  *)
(***************************************************************************)
(* the rows of the table of the type that the last call loaded *)
LoadedRows ==
    {r \in sql_persister.rows : r.table = table_name(Cur, ret.value.v)}

(* the last call was a load_entities of a type whose table holds rows *)
LoadOfRows ==
    /\ ret.op = "load_entities"
    /\ ret.value.v \in DOMAIN sql_persister.unit_meta_unit
    /\ LoadedRows /= {}

(* C30: load_entities resolves for each row of the type's table the entity *)
(* of the row's _global_id, assigns each non-null SINGLE/MAP column        *)
(* through SET and each row of a field table through ADD, and when it      *)
(* returns every loaded entity is in the saved state                       *)
C30_LoadLeavesSaved ==
    LoadOfRows =>
        /\ ret.err = ""
        /\ \A r \in LoadedRows :
               LET g == r.cols["_global_id"].v
               IN  /\ g \in DOMAIN entity_map
                   /\ Ent(g) \in Range(ret.rv.v)
                   /\ IsSaved(CommittedNow(g))
                   /\ \A f \in Range(TypeDef[ret.value.v].fields_enum) :
                          (~IsMulti(f) /\ r.cols["_" \o FieldDef[f].name] /= PyNone)
                              => _access_data_get_value(Cur, Ent(g), FieldV(f), PyNone).rv
                                     = map_value_from_db(f, r.cols["_" \o FieldDef[f].name])

(* a load of the type of an inserted entity ended in an exception at the   *)
(* first row, with the entity not saved and nothing returned               *)
C30_Witness ==
    /\ LoadOfRows
    /\ \E r \in LoadedRows : r.cols["_global_id"] = PyStr(EntA)
    /\ ret.err = "AttributeError" /\ ret.rv = PyNone
    /\ ~IsSaved(CommittedNow(EntA))

(***************************************************************************)
(* Properties of accesses through an unregistered field (SpecUnknown).     *)
(***************************************************************************)
(* the last call was an access whose path names the unregistered field *)
NamesUnknown ==
    ret.op \in UnknownOps /\ FieldV(UnknownField) \in Range(ret.path)

(* no entity has an attribute for the field, the lookup table no entry *)
NoUnknownAttribute ==
    \A g \in DOMAIN entity_map : UnknownName \notin DOMAIN entity_map[g].m

NoUnknownEntry ==
    /\ UnknownField \notin DOMAIN enum_map.gname
    /\ UnknownName \notin DOMAIN enum_map.fields

(* C31: an access whose path names a field that is not in the field lookup *)
(* table fails with an error; it adds no attribute for that field to any   *)
(* entity and no entry to the lookup table                                 *)
C31_UnknownFieldFails ==
    NamesUnknown => /\ ret.err /= ""
                    /\ NoUnknownAttribute
                    /\ NoUnknownEntry

(* the unregistered field followed a MAP, LIST or SINGLE value of an       *)
(* entity (or an unset reference) and the access returned without an error *)
C31_Witness ==
    /\ NamesUnknown
    /\ ret.pre.t /= "entity"
    /\ ret.err = ""
    /\ ret.rv = PyNone

(***************************************************************************)
(* Properties of deserialization of damaged records (SpecRecord).          *)
(***************************************************************************)
(* a base field of the record is missing or names nothing the store holds *)
AncestryBroken(e_map) ==
    \/ \E i \in 1 .. 3 : _get_base_fields[i] \notin DOMAIN e_map
    \/ e_map[_get_base_fields[1]].v \notin DOMAIN entity_map
    \/ e_map[_get_base_fields[2]].v \notin DOMAIN enum_map.type_enums
    \/ e_map[_get_base_fields[3]].t /= "int"

(* C32: Entity.from_json on a record whose unit, meta-type or entity-id    *)
(* base field is missing or does not resolve fails with an error and       *)
(* leaves the store as it was: no entity created, no attribute and no id   *)
(* counter changed                                                         *)
C32_AncestryFailure ==
    [][(ret'.op = "from_json" /\ AncestryBroken(ret'.value.v))
           => /\ ret'.err /= ""
              /\ entity_map' = entity_map
              /\ enum_map' = enum_map]_vars

(* a from_json of a record whose unit names no unit entity failed, and the *)
(* store now holds a unit entity of that id                                *)
C32_Witness ==
    /\ ret.op = "from_json"
    /\ _get_base_fields[1] \in DOMAIN ret.value.v
    /\ ret.value.v[_get_base_fields[1]] = PyStr(UnknownUnit)
    /\ ret.err /= ""
    /\ UnknownUnit \in DOMAIN entity_map

(***************************************************************************)
(* Properties of the entity map over its life (SpecLife).                  *)
(***************************************************************************)
(* the GlobalId g denotes the same Entity object after the step: the       *)
(* object's unit, id and type are the same and its attribute map is not a  *)
(* fresh one (an Entity put into the store anew starts with only the base  *)
(* attributes)                                                             *)
SameEntity(g) ==
    /\ entity_map'[g].e.unit = entity_map[g].e.unit
    /\ entity_map'[g].e.entity_id = entity_map[g].e.entity_id
    /\ entity_map'[g].e.meta_type = entity_map[g].e.meta_type
    /\ DOMAIN entity_map[g].m \subseteq DOMAIN entity_map'[g].m

(* C33: no operation removes an entity: the set of GlobalIds in the entity *)
(* map only grows, and a GlobalId once present keeps denoting the same     *)
(* entity                                                                  *)
C33_EntitiesNeverRemoved ==
    [][\A g \in DOMAIN entity_map : g \in DOMAIN entity_map' /\ SameEntity(g)]_vars

(* entities were created beside the two of the start, one of them holds a  *)
(* value, and the last call was a DEL or a pass of the persister           *)
C33_Witness ==
    /\ Cardinality(DOMAIN entity_map) > Cardinality(DOMAIN Populated.entity_map)
    /\ DOMAIN Populated.entity_map \subseteq DOMAIN entity_map
    /\ \E g \in {EntA, EntB} : DOMAIN entity_map[g].m /= Range(_get_base_fields)
    /\ ret.op \in {"DEL", "persist_entities", "load_entities"}

(***************************************************************************)
(* Properties of id allocation against explicit ids (Spec).                *)
(***************************************************************************)
(* the step is a Store.access without an entity id that returned an entity *)
AutoCreation ==
    /\ ret'.op = "GET" /\ Len(ret'.path) = 3 /\ ret'.path[2] = PyNone
    /\ ret'.err = "" /\ ret'.rv.t = "entity"

(* C34: an access that omits the entity id returns a brand-new entity,     *)
(* also when entities were created with explicit ids in the same unit and  *)
(* meta-type before: the allocated id is the id of no existing entity      *)
C34_AutoIdFresh ==
    [][AutoCreation => ret'.rv.v \notin DOMAIN entity_map]_vars

(* an access without an id returned the entity that an earlier access with *)
(* the explicit id 8 had created: the map holds it and the call added none *)
C34_Witness ==
    /\ ret.op = "GET" /\ Len(ret.path) = 3 /\ ret.path[2] = PyNone
    /\ ret.err = "" /\ ret.rv.t = "entity"
    /\ \E i \in ExplicitIds :
           /\ ret.rv.v = _ref(Cur, ret.path[1], i, ret.path[3])
           /\ Last(Issued(Cur, ret.path[1].v)) = i

(***************************************************************************)
(* Properties of the dispatch of a persistence pass over time (SpecSql).   *)
(***************************************************************************)
(* C35: a persistence pass dispatches an entity that has no row in the     *)
(* database yet to insert and not to update, however often it was written  *)
(* to before, and an entity that has been persisted to update and never to *)
(* a second insert                                                         *)
C35_InsertThenUpdate ==
    [][(ret'.op = "persist_entities" /\ UserTypes[1] \in sql_persister.persisted_types)
           => \A g \in DOMAIN ret'.pre :
                  /\ RowsOf(Cur, g) = {}
                         => /\ StatementsFor(g, {"INSERT"})' /= {}
                            /\ StatementsFor(g, {"UPDATE"})' = {}
                  /\ RowsOf(Cur, g) /= {}
                         => /\ StatementsFor(g, {"INSERT"})' = {}
                            /\ StatementsFor(g, {"UPDATE"})' /= {}]_vars

(* a pass over the entity of type A, which holds written values, ended    *)
(* without an error and without having executed a statement                *)
C35_Witness ==
    /\ ret.op = "persist_entities" /\ ret.value = PyList(<<Ent(EntA)>>)
    /\ UserTypes[1] \in sql_persister.persisted_types
    /\ DOMAIN entity_map[EntA].m /= Range(_get_base_fields)
    /\ ret.sql = <<>> /\ ret.err = ""

(***************************************************************************)
(* Properties of a load over entities that are in memory (SpecSql).        *)
(***************************************************************************)
(* the last call was a load_entities of the type A, whose entity u1:1:A is *)
(* in memory and has a row in the table of the type                        *)
LoadOfPresent ==
    /\ LoadOfRows /\ ret.value.v = UserTypes[1]
    /\ \E r \in LoadedRows : r.cols["_global_id"] = PyStr(EntA)

(* the value in memory of a SET or LIST field against the field's rows *)
EqualsRows(f, tname) ==
    LET held == DictGet(entity_map[EntA].m, enum_map.gname[f])
        rows == RowValues(tname, EntA)
    IN  IF held = PyNone THEN rows = <<>>
        ELSE IF held.t = "list" THEN held.v = rows
        ELSE /\ DOMAIN held.v = Range(rows)
             /\ Cardinality(DOMAIN held.v) = Len(rows)

(* C36: a load of a type whose entities are already in memory returns and  *)
(* leaves every SINGLE, SET and LIST field equal to the stored rows; a     *)
(* LIST field is as long after the load as its rows are many               *)
C36_LoadIdempotent ==
    LoadOfPresent =>
        /\ ret.err = ""
        /\ EqualsRows("AFields.items", "u1_A_items")
        /\ EqualsRows("AFields.tags", "u1_A_tags")
        /\ \A r \in LoadedRows :
               r.cols["_global_id"] = PyStr(EntA)
                   => DictGet(entity_map[EntA].m, enum_map.gname["AFields.num"])
                          = r.cols["_num"]

(* the entity was inserted with members in its LIST field, and the load of *)
(* its type ended in an exception                                          *)
C36_Witness ==
    /\ LoadOfPresent
    /\ RowValues("u1_A_items", EntA) /= <<>>
    /\ ret.err = "AttributeError"

(***************************************************************************)
(* Properties of ADD as growth of a collection (SpecGrow).                 *)
(***************************************************************************)
(* what the field of the last call holds now *)
HeldNow == DictGet(entity_map[ret.path[1].v].m, enum_map.gname[ret.path[2].v])

(* every element stored before the call is still stored, in a list at the *)
(* position it had                                                         *)
KeepsElements ==
    /\ ret.pre.raw.t = "list"
           => /\ HeldNow.t = "list" /\ Len(HeldNow.v) >= Len(ret.pre.raw.v)
              /\ \A i \in DOMAIN ret.pre.raw.v : HeldNow.v[i] = ret.pre.raw.v[i]
    /\ ret.pre.raw.t = "set"
           => /\ HeldNow.t = "set"
              /\ DOMAIN ret.pre.raw.v \subseteq DOMAIN HeldNow.v

(* the call handed a bare value to a LIST field *)
BareOntoList ==
    /\ FieldDef[ret.path[2].v].valuetype = "LIST"
    /\ ret.value.t \notin {"list", "set"}

(* the list is the one held before with the value, or the GlobalId of the *)
(* entity given, as its new last element                                   *)
AppendedLast ==
    /\ HeldNow.t = "list"
    /\ HeldNow.v = Append(IF ret.pre.raw.t = "list" THEN ret.pre.raw.v ELSE <<>>,
                          IF ret.value.t = "entity" THEN PyStr(ret.value.v) ELSE ret.value)

(* C37: ADD only grows a collection: after ADD on a LIST or SET field      *)
(* every element stored before is still stored (in a LIST at the same     *)
(* position) whether the value is bare or a collection; ADD of a bare      *)
(* value onto a LIST puts it at the end, duplicates included, and always   *)
(* marks the entity dirty                                                  *)
C37_AddOnlyGrows ==
    MultiOp("ADD") =>
        /\ KeepsElements
        /\ BareOntoList => (AppendedLast /\ Marked)

(* ADD of a list onto a LIST field that held elements left a list that     *)
(* does not begin with them                                                *)
C37_Witness ==
    /\ MultiOp("ADD")
    /\ FieldDef[ret.path[2].v].valuetype = "LIST" /\ ret.value.t = "list"
    /\ ret.pre.raw.t = "list" /\ ret.pre.raw.v /= <<>>
    /\ HeldNow = ret.value
    /\ ~KeepsElements

(***************************************************************************)
(* Properties of id allocation by concurrent callers (SpecShared).         *)
(***************************************************************************)
(* two calls without an entity id received the same id *)
SameIdTwice ==
    \E i, j \in DOMAIN Issued(Cur, UNIT_USER) :
        i < j /\ Issued(Cur, UNIT_USER)[i] = Issued(Cur, UNIT_USER)[j]

(* C38: the increment of the id counter is not atomic: two callers that    *)
(* create entities of one unit without ids can receive the same id, and    *)
(* only when they are not serialized; when every access runs to completion *)
(* under one store-wide mutex the ids received are pairwise distinct       *)
C38_SameIdOnlyUnserialized ==
    SameIdTwice => ~callers.serialized

(* two unserialized callers have returned with the same id, and so with    *)
(* the same entity                                                         *)
C38_Witness ==
    /\ ~callers.serialized
    /\ \E c, d \in Callers :
           /\ c /= d
           /\ callers.of[c].pc = "done" /\ callers.of[d].pc = "done"
           /\ callers.of[c].entity_id = callers.of[d].entity_id
    /\ SameIdTwice

(***************************************************************************)
(* Properties of init_sql_persist (SpecInitFair).                          *)
(***************************************************************************)
(* at most one instance of persist_class was made, and it is the one in    *)
(* _sql_persister                                                          *)
SinglePersister ==
    /\ sql_init.created <= 1
    /\ sql_init._sql_persister = sql_init.created

(* generate_schema was run at most once for each type enum, whoever called *)
GeneratedOnce == \A e \in InitEnums : sql_init.generated[e] <= 1

(* init_sql_persist called generate_schema at most once for each type enum *)
CalledOnce == \A e \in InitEnums : sql_init.called[e] <= 1

(* C39 as stated: every call of init_sql_persist returns, whatever the     *)
(* dependency graph; generate_schema is run at most once for each type     *)
(* enum; at most one persister instance is made and all calls use it.      *)
C39_InitTerminatesOnce ==
    /\ [](GeneratedOnce /\ SinglePersister)
    /\ (Running ~> ~Running)

(* C39 amended: every call of init_sql_persist returns, whatever the       *)
(* dependency graph; init_sql_persist itself calls generate_schema at most *)
(* once for each type enum, and only for EntityTypes is generate_schema    *)
(* run by anyone else (by __generate_base_schema); at most one persister   *)
(* instance is made and all calls use it.                                  *)
C39_InitCallsOnce ==
    /\ [](/\ CalledOnce
          /\ \A e \in InitEnums \ {"EntityTypes"} :
                sql_init.generated[e] = sql_init.called[e]
          /\ SinglePersister)
    /\ (Running ~> ~Running)

(* a call meets an enum that depends on itself and is already initiated:   *)
(* generate_schema was called for it once, by the one persister            *)
C39_Witness ==
    /\ Running
    /\ \E e \in {Head(sql_init.pending)} :
         /\ e \in sql_init._types_initiated
         /\ \E i \in DOMAIN sql_init.deps[e] : sql_init.deps[e][i] = e
         /\ sql_init.called[e] = 1
    /\ sql_init.created = 1

====
